---- MODULE Spec2Model ----
(***************************************************************************)
(* A model of the FoodManagement application: the inventory ledger with    *)
(* its cached status, the consumption log, and the scoring services        *)
(* (expiration-risk predictor, waste estimator, SDG impact scorer).        *)
(*                                                                         *)
(* Dates are day numbers.  Decimal quantities are integers in hundredths   *)
(* (DecimalField(decimal_places=2)); scores are integers in hundredths of  *)
(* a point, so that round(x, 2) is a rounding to an integer; the doubles   *)
(* a service returns are modelled where a property depends on them.  A     *)
(* nullable date is the empty tuple (NULL) or a one-element tuple.  A      *)
(* handler reads the clock once: the calendar date does not change inside  *)
(* one request.                                                            *)
(***************************************************************************)
EXTENDS Integers, Sequences, FiniteSets, TLC

VARIABLES
    today,        \* timezone.now().date()
    month,        \* timezone.now().month
    household,    \* profile.household_size of each user
    items,        \* InventoryItem rows: id -> record
    logs,         \* FoodLog rows in creation order
    response,     \* what the last call of a scoring service returned
    catalog,      \* FoodItem rows: id -> record
    plan,         \* the run of the rule-based meal optimizer in progress
    sdg_scores,   \* SDGImpactScore rows in creation order
    requests,     \* requests in flight (sdg_impact, the dashboard): id -> record
    notifications,\* ExpirationNotification rows in creation order
    outbox,       \* the e-mails handed to send_mail, in order
    waste_predictions \* WastePrediction rows in creation order

\* The tables and runs of the services that the inventory and the scoring
\* functions never touch.
stores ==
    <<catalog, plan, sdg_scores, requests, notifications, outbox, waste_predictions>>

vars == <<today, month, household, items, logs, response, stores>>

-----------------------------------------------------------------------------
(* Bounds of the model *)

MaxDay == 1
MaxItems == 2
MaxLogs == 1
MaxLogQty == 200

Users == {"alice", "bob"}

Null == <<>>
Some(d) == <<d>>
Val(o) == o[1]

Max(a, b) == IF a >= b THEN a ELSE b
Min(a, b) == IF a <= b THEN a ELSE b

NoResponse == [op |-> "none"]

NoPlan == [pc |-> "idle"]

NoStores ==
    /\ catalog = <<>>
    /\ plan = NoPlan
    /\ sdg_scores = <<>>
    /\ requests = <<>>
    /\ notifications = <<>>
    /\ outbox = <<>>
    /\ waste_predictions = <<>>

-----------------------------------------------------------------------------
(* inventory/models.py: InventoryItem *)

is_expiring_soon_strict(item, now) ==
    IF item.expiration_date # Null
    THEN LET days_until_expiry == Val(item.expiration_date) - now
         IN  0 <= days_until_expiry /\ days_until_expiry < 3
    ELSE FALSE

is_expiring_soon(item, now) ==
    IF item.expiration_date # Null
    THEN LET days_until_expiry == Val(item.expiration_date) - now
         IN  0 <= days_until_expiry /\ days_until_expiry <= 3
    ELSE FALSE

is_expired_never(item, now) == FALSE

is_expired(item, now) ==
    IF item.expiration_date # Null
    THEN Val(item.expiration_date) < now
    ELSE FALSE

update_status(item, now) ==
    IF is_expired(item, now) THEN [item EXCEPT !.status = "expired"]
    ELSE IF is_expiring_soon(item, now) THEN [item EXCEPT !.status = "expiring_soon"]
    ELSE IF item.status # "consumed" THEN [item EXCEPT !.status = "fresh"]
    ELSE item

\* The status the three date rules give a row on a given day.
StatusFor(exp, now) ==
    IF exp # Null /\ Val(exp) < now THEN "expired"
    ELSE IF exp # Null /\ Val(exp) - now >= 0 /\ Val(exp) - now <= 3 THEN "expiring_soon"
    ELSE "fresh"

-----------------------------------------------------------------------------
(* inventory/views.py: the requests of the inventory pages *)

\* What a user can post in InventoryItemForm: the form has no status field.
Forms ==
    { [item_name |-> "milk", quantity |-> 100, unit |-> "l", category |-> "dairy"] }

ExpOffsets == {-1, 0, 3, 4}

ExpChoices(now) == {Null} \cup {Some(now + o) : o \in ExpOffsets}

FromForm(u, f, purchase, exp, status) ==
    [user |-> u, item_name |-> f.item_name, quantity |-> f.quantity,
     unit |-> f.unit, category |-> f.category, purchase_date |-> purchase,
     expiration_date |-> exp, status |-> status]

FreeIds == (1..MaxItems) \ DOMAIN items

Put(tbl, id, row) == [i \in DOMAIN tbl \cup {id} |-> IF i = id THEN row ELSE tbl[i]]

OwnedBy_anyone(u) == DOMAIN items

OwnedBy(u) == {i \in DOMAIN items : items[i].user = u}

\* What a request of the inventory pages answers: the rows it called
\* update_status() on, and which of them were stored as consumed before.
Answer(op, u, ids) ==
    [op |-> op, at |-> today, updated |-> ids,
     was_consumed |-> {i \in ids \cap DOMAIN items : items[i].status = "consumed"}]

inventory_create(u, f, exp) ==
    /\ FreeIds # {}
    /\ LET id == CHOOSE i \in FreeIds : \A j \in FreeIds : i <= j
           item == FromForm(u, f, today, exp, "fresh")
       IN  /\ items' = Put(items, id, update_status(item, today))
           /\ response' = Answer("inventory_create", u, {id})
    /\ UNCHANGED <<today, month, household, logs, stores>>

inventory_edit(u, id, f, exp) ==
    /\ id \in OwnedBy(u)
    /\ LET item == FromForm(u, f, items[id].purchase_date, exp, items[id].status)
       IN  items' = [items EXCEPT ![id] = update_status(item, today)]
    /\ response' = Answer("inventory_edit", u, {id})
    /\ UNCHANGED <<today, month, household, logs, stores>>

\* WastePrediction.inventory_item is on_delete=CASCADE.
inventory_delete(u, id) ==
    /\ id \in OwnedBy(u)
    /\ items' = [i \in DOMAIN items \ {id} |-> items[i]]
    /\ LET Kept(row) == row.inventory_item # id
       IN  waste_predictions' = SelectSeq(waste_predictions, Kept)
    /\ response' = Answer("inventory_delete", u, {})
    /\ UNCHANGED <<today, month, household, logs, catalog, plan, sdg_scores, requests,
                   notifications, outbox>>

inventory_detail(u, id) ==
    /\ id \in OwnedBy(u)
    /\ items' = [items EXCEPT ![id] = update_status(items[id], today)]
    /\ response' = Answer("inventory_detail", u, {id})
    /\ UNCHANGED <<today, month, household, logs, stores>>

StatusFilters == {"", "fresh", "expiring_soon", "expired", "consumed"}

CategoryFilters == {"", "dairy", "grain"}

\* The rows the filtered queryset yields; every one of them is re-saved.
Listed(u, category, status) ==
    {i \in OwnedBy(u) :
        /\ category = "" \/ items[i].category = category
        /\ status = "" \/ items[i].status = status}

\* The alerts the page also computes change no stored row.
inventory_list(u, category, status) ==
    /\ items' = [i \in DOMAIN items |->
                    IF i \in Listed(u, category, status)
                    THEN update_status(items[i], today) ELSE items[i]]
    /\ response' = Answer("inventory_list", u, Listed(u, category, status))
    /\ UNCHANGED <<today, month, household, logs, stores>>

\* FoodLog.objects.filter(...).first() under ordering -date_consumed, -created_at:
\* the rows compared share date_consumed, so the newest row comes first.
MatchingLogs(u, item, now) ==
    {k \in 1..Len(logs) :
        /\ logs[k].user = u
        /\ logs[k].item_name = item.item_name
        /\ logs[k].category = item.category
        /\ logs[k].date_consumed = now}

inventory_mark_consumed(u, id) ==
    /\ id \in OwnedBy(u)
    /\ LET item == items[id]
           found == MatchingLogs(u, item, today)
       IN  /\ items' = [items EXCEPT ![id].status = "consumed"]
           /\ IF found # {}
              THEN LET k == CHOOSE x \in found : \A y \in found : x >= y
                   IN  /\ logs[k].quantity + item.quantity <= MaxLogQty
                       /\ logs' = [logs EXCEPT ![k].quantity = @ + item.quantity]
              ELSE /\ Len(logs) < MaxLogs
                   /\ logs' = Append(logs,
                       [user |-> u, item_name |-> item.item_name,
                        quantity |-> item.quantity, unit |-> item.unit,
                        category |-> item.category, date_consumed |-> today])
    /\ response' = Answer("inventory_mark_consumed", u, {})
    /\ UNCHANGED <<today, month, household, stores>>

\* Midnight passes.
Tick ==
    /\ today < MaxDay
    /\ today' = today + 1
    /\ UNCHANGED <<month, household, items, logs, response, stores>>

InitInv ==
    /\ today = 0
    /\ month = 1
    /\ household = [u \in Users |-> 1]
    /\ items = <<>>
    /\ logs = <<>>
    /\ response = NoResponse
    /\ NoStores

NextInv ==
    \/ \E u \in Users, f \in Forms, exp \in ExpChoices(today) : inventory_create(u, f, exp)
    \/ \E u \in Users, id \in DOMAIN items, f \in Forms, exp \in ExpChoices(today) :
          inventory_edit(u, id, f, exp)
    \/ \E u \in Users, id \in DOMAIN items : inventory_delete(u, id)
    \/ \E u \in Users, id \in DOMAIN items : inventory_detail(u, id)
    \/ \E u \in Users, c \in CategoryFilters, s \in StatusFilters : inventory_list(u, c, s)
    \/ \E u \in Users, id \in DOMAIN items : inventory_mark_consumed(u, id)
    \/ Tick

SpecInv == InitInv /\ [][NextInv]_vars

\* C1: consumed is terminal -- in no step does a row whose status is
\* 'consumed' get another status (the row may be deleted).
C1_ConsumedIsTerminal ==
    [][\A i \in DOMAIN items :
          (items[i].status = "consumed" /\ i \in DOMAIN items')
              => items'[i].status = "consumed"]_vars

\* C2: after update_status() on a row that was not consumed, the status is
\* expired iff expiration_date < today, expiring_soon iff the date is 0..3
\* days ahead, fresh otherwise (also without a date), whatever it was before.
C2_StatusIsDerived ==
    (response.op \in {"inventory_create", "inventory_edit", "inventory_detail",
                      "inventory_list"} /\ response.at = today) =>
        \A i \in response.updated \ response.was_consumed :
            /\ i \in DOMAIN items
            /\ items[i].status = StatusFor(items[i].expiration_date, today)

\* A list request on a later day found one row past its date and another row
\* of the owner still fresh.
C2_Witness ==
    /\ response.op = "inventory_list"
    /\ response.at = today
    /\ \E i, j \in response.updated \ response.was_consumed :
          /\ items[i].status = "expired"
          /\ items[i].expiration_date = Some(today - 1)
          /\ items[i].purchase_date < today
          /\ items[j].status = "fresh"

\* C30: an item's quantity is logged once -- a mark-consumed POST on a row
\* that is stored as consumed already (the step changes no row) adds nothing
\* to the consumption log.
C30_ConsumedQuantityLoggedOnce ==
    [][(response'.op = "inventory_mark_consumed" /\ items' = items)
          => logs' = logs]_vars

StatusRank(status) ==
    CASE status = "fresh" -> 0
      [] status = "expiring_soon" -> 1
      [] status = "expired" -> 2

\* C24: a row that is not consumed and whose expiration date a step leaves
\* as it was never moves back in fresh -> expiring_soon -> expired: its
\* status after the step is the one before or a later one.
C24_StatusOnlyMovesForward ==
    [][\A i \in DOMAIN items \cap DOMAIN items' :
          (/\ items[i].status # "consumed"
           /\ items'[i].status # "consumed"
           /\ items'[i].expiration_date = items[i].expiration_date)
              => StatusRank(items'[i].status) >= StatusRank(items[i].status)]_vars

\* A row bought yesterday with today's date minus one -- stored as expiring
\* soon when it was created -- that a request of today stored as expired.
C24_Witness ==
    /\ response.op = "inventory_detail"
    /\ response.at = today
    /\ \E i \in response.updated \ response.was_consumed :
          /\ i \in DOMAIN items
          /\ items[i].purchase_date < today
          /\ items[i].expiration_date = Some(today - 1)
          /\ items[i].status = "expired"

-----------------------------------------------------------------------------
(* ai_analytics/expiration_predictor.py: ExpirationRiskPredictor *)

Categories ==
    {"vegetable", "fruit", "dairy", "meat", "grain", "beverage", "snack",
     "frozen", "canned", "other"}

\* risk_multiplier in tenths, and the seasonal_sensitive flag.
CATEGORY_EXPIRATION_RATES(category) ==
    CASE category = "fruit"     -> [risk_multiplier |-> 15, seasonal_sensitive |-> TRUE]
      [] category = "vegetable" -> [risk_multiplier |-> 13, seasonal_sensitive |-> TRUE]
      [] category = "dairy"     -> [risk_multiplier |-> 14, seasonal_sensitive |-> FALSE]
      [] category = "meat"      -> [risk_multiplier |-> 16, seasonal_sensitive |-> FALSE]
      [] category = "grain"     -> [risk_multiplier |-> 8,  seasonal_sensitive |-> FALSE]
      [] category = "beverage"  -> [risk_multiplier |-> 10, seasonal_sensitive |-> FALSE]
      [] category = "snack"     -> [risk_multiplier |-> 7,  seasonal_sensitive |-> FALSE]
      [] category = "frozen"    -> [risk_multiplier |-> 5,  seasonal_sensitive |-> FALSE]
      [] category = "canned"    -> [risk_multiplier |-> 3,  seasonal_sensitive |-> FALSE]
      [] OTHER                  -> [risk_multiplier |-> 10, seasonal_sensitive |-> FALSE]

\* Season x category factor in tenths; 1.0 for a category the table lacks.
SEASONAL_FACTORS(season, category) ==
    CASE season = "spring" /\ category = "fruit"     -> 12
      [] season = "spring" /\ category = "vegetable" -> 11
      [] season = "summer" /\ category = "fruit"     -> 15
      [] season = "summer" /\ category = "vegetable" -> 13
      [] season = "summer" /\ category = "dairy"     -> 12
      [] season = "summer" /\ category = "meat"      -> 11
      [] season = "autumn" /\ category = "fruit"     -> 11
      [] season = "winter" /\ category = "fruit"     -> 9
      [] season = "winter" /\ category = "vegetable" -> 8
      [] season = "winter" /\ category = "dairy"     -> 9
      [] OTHER                                       -> 10

RISK_THRESHOLDS ==
    [critical |-> 8000, high |-> 6000, medium |-> 4000, low |-> 2000]

_get_current_season(m) ==
    IF m \in {12, 1, 2} THEN "winter"
    ELSE IF m \in {3, 4, 5} THEN "spring"
    ELSE IF m \in {6, 7, 8} THEN "summer"
    ELSE "autumn"

\* round(n / d, 2) for a value n / d counted in hundredths (d > 0): to the
\* nearest integer, a tie to the even one.
RoundDiv(n, d) ==
    LET q == n \div d
        r == n % d
    IN  IF 2 * r > d THEN q + 1
        ELSE IF 2 * r < d THEN q
        ELSE IF q % 2 = 0 THEN q ELSE q + 1

RECURSIVE SumQuantity(_, _)
SumQuantity(rows, ks) ==
    IF ks = {} THEN 0
    ELSE LET k == CHOOSE x \in ks : TRUE
         IN  rows[k].quantity + SumQuantity(rows, ks \ {k})

SetMax(S) == CHOOSE x \in S : \A y \in S : x >= y
SetMin(S) == CHOOSE x \in S : \A y \in S : x <= y

\* The pattern of one category over the user's logs of the last 30 days:
\* total_consumed (hundredths), consumption_days, frequency as the fraction
\* frequency_num / frequency_den, and whether the category has a pattern at
\* all.  avg_daily is total_consumed / consumption_days.
_analyze_consumption_patterns(u, category, now) ==
    LET recent == {k \in 1..Len(logs) :
                      /\ logs[k].user = u
                      /\ logs[k].date_consumed >= now - 30
                      /\ logs[k].category = category}
        unique_dates == {logs[k].date_consumed : k \in recent}
        n == Cardinality(unique_dates)
    IN  [present |-> recent # {},
         total_consumed |-> SumQuantity(logs, recent),
         consumption_days |-> n,
         frequency_num |-> IF n > 1 THEN SetMax(unique_dates) - SetMin(unique_dates)
                           ELSE IF n = 1 THEN 30 ELSE 0,
         frequency_den |-> IF n > 1 THEN n - 1 ELSE 1]

time_risk_of(days_until_expiry) ==
    IF days_until_expiry <= 0 THEN 100
    ELSE IF days_until_expiry <= 1 THEN 90
    ELSE IF days_until_expiry <= 3 THEN 75
    ELSE IF days_until_expiry <= 7 THEN 60
    ELSE Max(20, 60 - (days_until_expiry - 7) * 2)

\* time_risk * risk_multiplier, times the seasonal factor where the category
\* is flagged seasonal_sensitive; in hundredths.
category_risk_of(item, season, now) ==
    LET time_risk == time_risk_of(Val(item.expiration_date) - now)
        category_data == CATEGORY_EXPIRATION_RATES(item.category)
    IN  time_risk * category_data.risk_multiplier *
            (IF category_data.seasonal_sensitive
             THEN SEASONAL_FACTORS(season, item.category) ELSE 10)

\* The score before clamping, as a fraction num / den of hundredths.
final_risk(item, pattern, season, household_size, now) ==
    LET days_until_expiry == Val(item.expiration_date) - now
        category_risk == category_risk_of(item, season, now)
        active == pattern.present /\ pattern.total_consumed > 0
        den == IF active THEN pattern.total_consumed ELSE 1
        \* days_to_consume - days_until_expiry, times den
        excess == item.quantity * pattern.consumption_days
                      - days_until_expiry * pattern.total_consumed
        consumption_risk ==
            IF active
            THEN (IF excess > 0 THEN Min(3000 * den, 500 * excess) ELSE 0)
                 + (IF pattern.frequency_num > 7 * pattern.frequency_den
                    THEN 1000 * den ELSE 0)
            ELSE 0
        household_adjustment ==
            IF household_size > 1 THEN (0 - 500) * (household_size - 1) ELSE 0
    IN  [num |-> (category_risk + household_adjustment) * den + consumption_risk,
         den |-> den]

clamp_risk_floor_only(raw) ==
    [num |-> Max(0, raw.num), den |-> raw.den]

clamp_risk(raw) ==
    [num |-> Max(0, Min(10000 * raw.den, raw.num)), den |-> raw.den]

_calculate_risk_score(item, pattern, season, household_size, now) ==
    IF item.expiration_date = Null THEN 0
    ELSE LET clamped == clamp_risk(final_risk(item, pattern, season, household_size, now))
         IN  RoundDiv(clamped.num, clamped.den)

\* In hundredths; the sum is in thousandths before round(ai_score, 2).
_calculate_ai_ranking_score(item, risk_score, now) ==
    LET days_since_purchase == now - item.purchase_date
        fifo_score == Min(50, days_since_purchase * 2)
        risk_component == risk_score * 5
        days_until == Val(item.expiration_date) - now
        proximity_bonus ==
            IF item.expiration_date = Null THEN 0
            ELSE IF days_until <= 0 THEN 50
            ELSE IF days_until <= 1 THEN 40
            ELSE IF days_until <= 3 THEN 30
            ELSE IF days_until <= 7 THEN 20
            ELSE Max(0, 20 - days_until)
        urgency_bonus ==
            10000 - 500 * CATEGORY_EXPIRATION_RATES(item.category).risk_multiplier
    IN  RoundDiv(fifo_score * 1000 + risk_component + proximity_bonus * 1000
                    + urgency_bonus, 10)

_determine_priority(risk_score) ==
    IF risk_score >= RISK_THRESHOLDS.critical THEN "critical"
    ELSE IF risk_score >= RISK_THRESHOLDS.high THEN "high"
    ELSE IF risk_score >= RISK_THRESHOLDS.medium THEN "medium"
    ELSE "low"

\* Meta.ordering = ['expiration_date', 'item_name'] of InventoryItem; rows
\* equal in both come in id order.
ItemNames == <<"apple", "beans", "milk", "rice">>

NameRank(name) == CHOOSE k \in 1..Len(ItemNames) : ItemNames[k] = name

Precedes(i, j) ==
    LET a == items[i]
        b == items[j]
    IN  \/ Val(a.expiration_date) < Val(b.expiration_date)
        \/ /\ a.expiration_date = b.expiration_date
           /\ \/ NameRank(a.item_name) < NameRank(b.item_name)
              \/ a.item_name = b.item_name /\ i < j

RECURSIVE Ordered(_)
Ordered(ids) ==
    IF ids = {} THEN <<>>
    ELSE LET first == CHOOSE i \in ids : \A j \in ids \ {i} : Precedes(i, j)
         IN  <<first>> \o Ordered(ids \ {first})

items_with_dates_before_target(u, days_ahead, now) ==
    {i \in DOMAIN items :
        /\ items[i].user = u
        /\ items[i].status # "consumed"
        /\ items[i].expiration_date # Null
        /\ Val(items[i].expiration_date) < now + days_ahead}

\* self.inventory_items filtered as predict_expiration_risks does.
items_with_dates(u, days_ahead, now) ==
    {i \in DOMAIN items :
        /\ items[i].user = u
        /\ items[i].status # "consumed"
        /\ items[i].expiration_date # Null
        /\ Val(items[i].expiration_date) <= now + days_ahead}

RECURSIVE sort_predictions_ascending(_)
sort_predictions_ascending(preds) ==
    IF preds = <<>> THEN <<>>
    ELSE LET n == Len(preds)
             x == preds[n]
             sorted == sort_predictions_ascending(SubSeq(preds, 1, n - 1))
             pos == Cardinality({k \in 1..Len(sorted) :
                        sorted[k].ai_ranking_score <= x.ai_ranking_score})
         IN  SubSeq(sorted, 1, pos) \o <<x>> \o SubSeq(sorted, pos + 1, Len(sorted))

\* predictions.sort(key=ai_ranking_score, reverse=True): a stable sort.
RECURSIVE sort_predictions(_)
sort_predictions(preds) ==
    IF preds = <<>> THEN <<>>
    ELSE LET n == Len(preds)
             x == preds[n]
             sorted == sort_predictions(SubSeq(preds, 1, n - 1))
             pos == Cardinality({k \in 1..Len(sorted) :
                        sorted[k].ai_ranking_score >= x.ai_ranking_score})
         IN  SubSeq(sorted, 1, pos) \o <<x>> \o SubSeq(sorted, pos + 1, Len(sorted))

predict_one(id, u, now, m) ==
    LET item == items[id]
        risk_score ==
            _calculate_risk_score(item,
                _analyze_consumption_patterns(u, item.category, now),
                _get_current_season(m), household[u], now)
    IN  [inventory_item |-> id,
         item_name |-> item.item_name,
         category |-> item.category,
         expiration_date |-> item.expiration_date,
         days_until_expiry |-> Val(item.expiration_date) - now,
         risk_score |-> risk_score,
         ai_ranking_score |-> _calculate_ai_ranking_score(item, risk_score, now),
         priority |-> _determine_priority(risk_score)]

predict_expiration_risks(u, days_ahead, now, m) ==
    LET rows == Ordered(items_with_dates(u, days_ahead, now))
    IN  sort_predictions([k \in 1..Len(rows) |-> predict_one(rows[k], u, now, m)])

IsHighRisk(pred) == pred.priority \in {"critical", "high"}

\* seq[:limit]
Slice(seq, limit) ==
    IF limit >= 0 THEN SubSeq(seq, 1, Min(limit, Len(seq)))
    ELSE SubSeq(seq, 1, Max(0, Len(seq) + limit))

AlertOf(pred) ==
    [type |-> pred.priority, item |-> pred.inventory_item,
     item_name |-> pred.item_name, expiration_date |-> pred.expiration_date,
     days_until_expiry |-> pred.days_until_expiry, risk_score |-> pred.risk_score]

get_high_risk_alerts_limit_first(u, limit, now, m) ==
    LET predictions == Slice(predict_expiration_risks(u, 7, now, m), limit)
        high == SelectSeq(predictions, IsHighRisk)
    IN  [k \in 1..Len(high) |-> AlertOf(high[k])]

get_high_risk_alerts(u, limit, now, m) ==
    LET predictions == predict_expiration_risks(u, 7, now, m)
        high == SelectSeq(predictions, IsHighRisk)
        alerts == [k \in 1..Len(high) |-> AlertOf(high[k])]
    IN  Slice(alerts, limit)

(* The calls of the predictor *)

DaysAhead == {7, 14}
MaxLimit == 2

CallPredict(u, days_ahead) ==
    /\ response' = [op |-> "predict_expiration_risks", user |-> u,
                    days_ahead |-> days_ahead,
                    result |-> predict_expiration_risks(u, days_ahead, today, month)]
    /\ UNCHANGED <<today, month, household, items, logs, stores>>

CallAlerts(u, limit) ==
    /\ response' = [op |-> "get_high_risk_alerts", user |-> u, limit |-> limit,
                    result |-> get_high_risk_alerts(u, limit, today, month)]
    /\ UNCHANGED <<today, month, household, items, logs, stores>>

NextRisk ==
    \/ \E u \in Users, d \in DaysAhead : CallPredict(u, d)
    \/ \E u \in Users, l \in 0..MaxLimit : CallAlerts(u, l)

(* Inventories the predictor is asked about *)

MaxRiskItems == 2

NameOf(category) ==
    CASE category = "fruit" -> "apple"
      [] category = "canned" -> "beans"
      [] category = "dairy" -> "milk"
      [] OTHER -> "rice"

\* A row's cached status: what update_status() last stored, or consumed.
StoredStatuses(exp, now) == {StatusFor(exp, now), "consumed"}

ItemRows(users, categories, quantities, purchases, offsets, now) ==
    UNION { { [user |-> u, item_name |-> NameOf(c), quantity |-> q, unit |-> "piece",
               category |-> c, purchase_date |-> now + p, expiration_date |-> e,
               status |-> st] : st \in StoredStatuses(e, now) } :
            u \in users, c \in categories, q \in quantities, p \in purchases,
            e \in {Null} \cup {Some(now + o) : o \in offsets} }

LogRows(u, category, quantities, offsets, now) ==
    { [user |-> u, item_name |-> NameOf(category), quantity |-> q, unit |-> "piece",
       category |-> category, date_consumed |-> now + o] :
      q \in quantities, o \in offsets }

\* No log, one log, or two logs of the category on different or equal days.
LogHistories(u, category, now) ==
    LET rows == LogRows(u, category, {50, 200}, {-40, -9, -1}, now)
    IN  {<<>>} \cup {<<r>> : r \in rows}
            \cup {<<r, [r EXCEPT !.quantity = 50, !.date_consumed = now - 1]>> : r \in rows}

Months == {2, 5, 8, 11}

\* One row of any category, with the owner's household, the season and the
\* owner's consumption of that category varied.
InitScore ==
    /\ today = 0
    /\ month \in Months
    /\ \E h \in {1, 3} : household = [u \in Users |-> h]
    /\ \E row \in ItemRows({"alice"}, Categories, {100, 400}, {-3},
                           {-1, 0, 1, 3, 7, 8, 14}, 0) :
          /\ items = <<row>>
          /\ logs \in LogHistories("alice", row.category, 0)
    /\ response = NoResponse
    /\ NoStores

NextScore ==
    \E i \in DOMAIN items, d \in DaysAhead : CallPredict(items[i].user, d)

SpecScore == InitScore /\ [][NextScore]_vars

\* Several rows of two owners, in midsummer.
InitRisk ==
    /\ today = 0
    /\ month = 7
    /\ household = [u \in Users |-> 1]
    /\ items \in [1..MaxRiskItems ->
                    ItemRows(Users, {"dairy", "canned"}, {100}, {-3}, {0, 7, 9}, 0)]
    /\ logs = <<>>
    /\ response = NoResponse
    /\ NoStores

SpecRisk == InitRisk /\ [][NextRisk]_vars

-----------------------------------------------------------------------------
(* Properties of the expiration-risk predictor *)

Predicted == response.op = "predict_expiration_risks"
Alerted == response.op = "get_high_risk_alerts"

Results == {response.result[k] : k \in 1..Len(response.result)}

\* C3: every risk score is within 0..100, and the priority is critical iff
\* score >= 80, high iff 60 <= score < 80, medium iff 40 <= score < 60, low
\* iff score < 40.
C3_ScoreBoundedPriorityExact ==
    Predicted =>
        \A p \in Results :
            /\ 0 <= p.risk_score /\ p.risk_score <= 10000
            /\ p.priority = "critical" <=> p.risk_score >= 8000
            /\ p.priority = "high" <=> (6000 <= p.risk_score /\ p.risk_score < 8000)
            /\ p.priority = "medium" <=> (4000 <= p.risk_score /\ p.risk_score < 6000)
            /\ p.priority = "low" <=> p.risk_score < 4000

\* A score of exactly 80.00, unclamped, ranked critical.
C3_Witness ==
    /\ Predicted
    /\ \E p \in Results :
          LET item == items[p.inventory_item]
              raw == final_risk(item,
                        _analyze_consumption_patterns(response.user, item.category, today),
                        _get_current_season(month), household[response.user], today)
          IN  p.risk_score = 8000 /\ p.priority = "critical" /\ raw.num = 8000 * raw.den

\* C4: the time risk of an item that expires today is 90, and the time risk
\* 100 is used only for an item whose date is past.
C4_TimeRiskOfToday ==
    Predicted =>
        \A p \in Results :
            /\ p.days_until_expiry = 0 => time_risk_of(p.days_until_expiry) = 90
            /\ time_risk_of(p.days_until_expiry) = 100 => p.days_until_expiry < 0

\* C5: the predictions returned are in non-increasing order of
\* ai_ranking_score.
C5_SortedByRanking ==
    Predicted =>
        \A k \in 1..(Len(response.result) - 1) :
            response.result[k].ai_ranking_score >= response.result[k + 1].ai_ranking_score

\* Two predictions that the sort exchanged: the queryset yields the earlier
\* expiration date first.
C5_Witness ==
    /\ Predicted
    /\ Len(response.result) >= 2
    /\ response.result[1].ai_ranking_score > response.result[2].ai_ranking_score
    /\ Val(response.result[1].expiration_date) > Val(response.result[2].expiration_date)

\* The positions of the critical and high predictions of the next 7 days.
HighPositions(preds) == {k \in 1..Len(preds) : preds[k].priority \in {"critical", "high"}}

\* C6: get_high_risk_alerts(limit) returns at most limit alerts; they are the
\* first critical or high predictions of predict_expiration_risks(7), in the
\* order of the predictions, none passed over.
C6_AlertsArePrefixOfHighRisk ==
    Alerted =>
        LET preds == predict_expiration_risks(response.user, 7, today, month)
            high == HighPositions(preds)
            n == Len(response.result)
        IN  /\ n <= response.limit
            /\ n = Min(response.limit, Cardinality(high))
            /\ \A k \in 1..n :
                  \E pos \in high :
                      /\ Cardinality({j \in high : j <= pos}) = k
                      /\ response.result[k].item = preds[pos].inventory_item
                      /\ response.result[k].type = preds[pos].priority
                      /\ response.result[k].risk_score = preds[pos].risk_score

\* One alert under limit 1, for a prediction ranked below a prediction that
\* is neither critical nor high.
C6_Witness ==
    /\ Alerted
    /\ response.limit = 1
    /\ Len(response.result) = 1
    /\ LET preds == predict_expiration_risks(response.user, 7, today, month)
       IN  /\ Len(preds) >= 2
           /\ 1 \notin HighPositions(preds)
           /\ response.result[1].item = preds[2].inventory_item

\* C7: the rows scored are exactly the owner's rows with an expiration date
\* on or before today + days_ahead whose stored status is not consumed, each
\* once; a row without a date is not in the output.
C7_ScoredSet ==
    Predicted =>
        /\ {p.inventory_item : p \in Results} =
              {i \in DOMAIN items :
                  /\ items[i].user = response.user
                  /\ items[i].expiration_date # Null
                  /\ Val(items[i].expiration_date) <= today + response.days_ahead
                  /\ items[i].status # "consumed"}
        /\ Cardinality(Results) = Len(response.result)
        /\ \A p \in Results : items[p.inventory_item].expiration_date # Null

\* One row scored on the last day of the window while the same owner's row
\* without a date is left out.
C7_Witness ==
    /\ Predicted
    /\ Len(response.result) = 1
    /\ response.result[1].days_until_expiry = response.days_ahead
    /\ \E i \in DOMAIN items :
          /\ items[i].user = response.user
          /\ items[i].expiration_date = Null
          /\ items[i].status # "consumed"

\* Two rows of one owner, of categories that reach equal risk scores.
InitRank ==
    /\ today = 0
    /\ month = 7
    /\ household = [u \in Users |-> 1]
    /\ items \in [1..MaxRiskItems ->
                    ItemRows({"alice"}, {"meat", "dairy", "beverage", "grain"},
                             {100}, {-3}, {0, 7}, 0)]
    /\ logs = <<>>
    /\ response = NoResponse
    /\ NoStores

NextRank == \E u \in Users, d \in DaysAhead : CallPredict(u, d)

SpecRank == InitRank /\ [][NextRank]_vars

\* C26: of two scored items with equal risk score, equal purchase date and
\* equal expiration date, the one whose category has the higher
\* risk_multiplier has an ai_ranking_score at least as high as the other's.
C26_WasteProneRanksFirst ==
    Predicted =>
        \A p, q \in Results :
            LET a == items[p.inventory_item]
                b == items[q.inventory_item]
            IN  (/\ p.risk_score = q.risk_score
                 /\ a.purchase_date = b.purchase_date
                 /\ a.expiration_date = b.expiration_date
                 /\ CATEGORY_EXPIRATION_RATES(a.category).risk_multiplier >
                        CATEGORY_EXPIRATION_RATES(b.category).risk_multiplier)
                    => p.ai_ranking_score >= q.ai_ranking_score

\* C25: the category risk of every scored fruit, vegetable, dairy or meat
\* item is time risk x risk_multiplier x the factor of the current season and
\* its category, and that of an item of any other category is time risk x
\* risk_multiplier alone.
C25_SeasonalAdjustmentApplied ==
    Predicted =>
        \A p \in Results :
            LET item == items[p.inventory_item]
                season == _get_current_season(month)
                rate == CATEGORY_EXPIRATION_RATES(item.category)
            IN  category_risk_of(item, season, today) =
                    time_risk_of(p.days_until_expiry) * rate.risk_multiplier *
                        (IF item.category \in {"fruit", "vegetable", "dairy", "meat"}
                         THEN SEASONAL_FACTORS(season, item.category) ELSE 10)

-----------------------------------------------------------------------------
(* ai_analytics/waste_estimator.py: WasteEstimator                          *)
(* Grams are counted in millionths of a gram and costs in 1e-8 of the       *)
(* currency unit, so that the Decimal sums of the estimator are exact:      *)
(* quantity has two decimals, the unit multipliers four, the waste rates    *)
(* (after the two adjustments) four.  The float products the code forms     *)
(* before Decimal(str(...)) are taken to be the exact products; the float() *)
(* of each returned Decimal is modelled bit for bit.                        *)

\* A Python float (IEEE-754 binary64) that is zero or positive and normal:
\* the value (hi * 2^26 + lo) * 2^e, the 53-bit mantissa in two parts.
FloatZero == [hi |-> 0, lo |-> 0, e |-> 0]

\* The mantissa plus one unit in the last place.
NextUp(hi, lo, e) ==
    IF lo + 1 < 2^26 THEN [hi |-> hi, lo |-> lo + 1, e |-> e]
    ELSE IF hi + 1 < 2^27 THEN [hi |-> hi + 1, lo |-> 0, e |-> e]
    ELSE [hi |-> 2^26, lo |-> 0, e |-> e + 1]

RECURSIVE BitLen(_)
BitLen(n) == IF n = 0 THEN 0 ELSE 1 + BitLen(n \div 2)

\* The zeros between the binary point and the first one bit of r / d < 1.
RECURSIVE LeadZeros(_, _)
LeadZeros(r, d) == IF 2 * r >= d THEN 0 ELSE 1 + LeadZeros(2 * r, d)

\* k more quotient bits of r / d, four at a time, shifted into the mantissa.
RECURSIVE DivBits(_, _, _, _, _)
DivBits(r, d, hi, lo, k) ==
    IF k = 0 THEN [hi |-> hi, lo |-> lo, r |-> r]
    ELSE LET c == Min(4, k)
             t == r * 2^c
             lo2 == lo * 2^c + (t \div d)
         IN  DivBits(t % d, d, hi * 2^c + (lo2 \div 2^26), lo2 % 2^26, k - c)

\* float(Decimal(n) / d): the double nearest to n / d, a tie to the even
\* mantissa (0 <= n, 0 < d <= 10^8).
float(n, d) ==
    IF n = 0 THEN FloatZero
    ELSE LET int == n \div d
             k == IF int > 0 THEN 53 - BitLen(int) ELSE 53 + LeadZeros(n % d, d)
             q == DivBits(n % d, d, int \div 2^26, int % 2^26, k)
         IN  IF 2 * q.r > d \/ (2 * q.r = d /\ q.lo % 2 = 1)
             THEN NextUp(q.hi, q.lo, -k)
             ELSE [hi |-> q.hi, lo |-> q.lo, e |-> -k]

\* x + y of two floats, x.e >= y.e, neither zero: the mantissas with three
\* more bits (guard, round, sticky), y shifted right to x's exponent.
FloatAddOrdered(x, y) ==
    LET d == x.e - y.e
        xl == (x.lo * 8) % 2^28
        xh == 2 * x.hi + ((x.lo * 8) \div 2^28)
        yl0 == (y.lo * 8) % 2^28
        yh0 == 2 * y.hi + ((y.lo * 8) \div 2^28)
        yl1 == IF d = 0 THEN yl0
               ELSE IF d < 28 THEN (yl0 \div 2^d) + (yh0 % 2^d) * 2^(28 - d)
               ELSE IF d < 56 THEN yh0 \div 2^(d - 28)
               ELSE 0
        yh == IF d < 28 THEN yh0 \div 2^d ELSE 0
        lost == IF d = 0 THEN FALSE
                ELSE IF d < 28 THEN yl0 % 2^d # 0
                ELSE IF d < 56 THEN yl0 # 0 \/ yh0 % 2^(d - 28) # 0
                ELSE TRUE
        yl == IF lost /\ yl1 % 2 = 0 THEN yl1 + 1 ELSE yl1
        sl0 == (xl + yl) % 2^28
        sh0 == xh + yh + ((xl + yl) \div 2^28)
        carry == sh0 >= 2^28
        sl1 == IF carry THEN (sl0 \div 2) + (sh0 % 2) * 2^27 ELSE sl0
        sl == IF carry /\ sl0 % 2 = 1 /\ sl1 % 2 = 0 THEN sl1 + 1 ELSE sl1
        sh == IF carry THEN sh0 \div 2 ELSE sh0
        e == IF carry THEN x.e + 1 ELSE x.e
        hi == sh \div 2
        lo == (sh % 2) * 2^25 + (sl \div 8)
        low3 == sl % 8
    IN  IF low3 > 4 \/ (low3 = 4 /\ lo % 2 = 1) THEN NextUp(hi, lo, e)
        ELSE [hi |-> hi, lo |-> lo, e |-> e]

\* Python's x + y on floats.
FloatAdd(x, y) ==
    IF x = FloatZero THEN y
    ELSE IF y = FloatZero THEN x
    ELSE IF x.e >= y.e THEN FloatAddOrdered(x, y)
    ELSE FloatAddOrdered(y, x)

\* Hundredths.
CATEGORY_WASTE_RATES(category) ==
    CASE category = "vegetable" -> 25
      [] category = "fruit" -> 20
      [] category = "dairy" -> 15
      [] category = "meat" -> 10
      [] category = "grain" -> 5
      [] category = "beverage" -> 8
      [] category = "snack" -> 12
      [] category = "frozen" -> 3
      [] category = "canned" -> 2
      [] category = "other" -> 15
      [] OTHER -> 15

\* Hundredths of the currency unit, per unit of quantity.
AVG_COST_PER_UNIT(category) ==
    CASE category = "vegetable" -> 250
      [] category = "fruit" -> 300
      [] category = "dairy" -> 400
      [] category = "meat" -> 800
      [] category = "grain" -> 200
      [] category = "beverage" -> 250
      [] category = "snack" -> 350
      [] category = "frozen" -> 300
      [] category = "canned" -> 200
      [] category = "other" -> 300
      [] OTHER -> 300

COMMUNITY_AVERAGE_WASTE == [weekly_grams |-> 500, weekly_cost |-> 1500]

\* quantity (hundredths) times the unit's multiplier (in 1e-4): millionths
\* of a gram.  Unit names are stored in lower case.
_convert_to_grams(quantity, unit) ==
    quantity * (CASE unit = "kg" -> 10000000
                  [] unit = "g" -> 10000
                  [] unit = "lb" -> 4535920
                  [] unit = "oz" -> 283495
                  [] unit = "l" -> 10000000
                  [] unit = "ml" -> 10000
                  [] unit = "cup" -> 2400000
                  [] unit = "piece" -> 1500000
                  [] unit = "serving" -> 2000000
                  [] unit = "pack" -> 5000000
                  [] OTHER -> 1000000)

RECURSIVE SumOver(_, _)
SumOver(f, S) ==
    IF S = {} THEN 0
    ELSE LET x == CHOOSE y \in S : TRUE
         IN  f[x] + SumOver(f, S \ {x})

\* status='expired', week_start <= expiration_date <= today
expired_items(u, now) ==
    {i \in OwnedBy(u) :
        /\ items[i].status = "expired"
        /\ items[i].expiration_date # Null
        /\ Val(items[i].expiration_date) >= now - 7
        /\ Val(items[i].expiration_date) <= now}

purchased_items_of_any_week(u, now) ==
    {i \in OwnedBy(u) : items[i].status # "consumed"}

\* purchase_date >= week_start, status other than consumed
purchased_items(u, now) ==
    {i \in OwnedBy(u) :
        /\ items[i].purchase_date >= now - 7
        /\ items[i].status # "consumed"}

\* The adjusted waste rate of a row, in 1e-4.
waste_rate(item, u, now) ==
    LET pattern == _analyze_consumption_patterns(u, item.category, now)
        infrequent == pattern.frequency_num > 7 * pattern.frequency_den
        soon == /\ item.expiration_date # Null
                /\ Val(item.expiration_date) - now <= 3
    IN  CATEGORY_WASTE_RATES(item.category)
            * (IF infrequent THEN 12 ELSE 10) * (IF soon THEN 13 ELSE 10)

\* grams * waste_rate.  The grams of a unit with a whole multiplier are a
\* multiple of 1e-2 g, which keeps the product below 2^31.
estimated_waste(item, u, now) ==
    (_convert_to_grams(item.quantity, item.unit) \div 10000) * waste_rate(item, u, now)

\* The four sums of the rule-based estimate.
weekly_parts(u, now) ==
    LET expired == expired_items(u, now)
        purchased == purchased_items(u, now)
    IN  [expired_waste_grams |->
            SumOver([i \in expired |->
                        _convert_to_grams(items[i].quantity, items[i].unit)], expired),
         expired_waste_cost |->
            SumOver([i \in expired |->
                        AVG_COST_PER_UNIT(items[i].category) * items[i].quantity * 10000],
                    expired),
         pattern_waste_grams |->
            SumOver([i \in purchased |-> estimated_waste(items[i], u, now)], purchased),
         pattern_waste_cost |->
            SumOver([i \in purchased |->
                        AVG_COST_PER_UNIT(items[i].category) * items[i].quantity
                            * waste_rate(items[i], u, now)], purchased)]

\* The returned dict: float() of each Decimal sum.
weekly_result(parts, now) ==
    [expired_waste_grams |-> float(parts.expired_waste_grams, 1000000),
     expired_waste_cost |-> float(parts.expired_waste_cost, 100000000),
     pattern_waste_grams |-> float(parts.pattern_waste_grams, 1000000),
     pattern_waste_cost |-> float(parts.pattern_waste_cost, 100000000),
     total_waste_grams |->
        float(parts.expired_waste_grams + parts.pattern_waste_grams, 1000000),
     total_waste_cost |->
        float(parts.expired_waste_cost + parts.pattern_waste_cost, 100000000),
     week_start |-> now - 7]

\* estimate_weekly_waste() without the ML service.
estimate_weekly_waste_rules(u, now) == weekly_result(weekly_parts(u, now), now)

\* What the ML service is for one call: not configured, failing, or
\* answering 200 with figures of its own.
NoMl == [configured |-> FALSE, status_code |-> 0, waste_grams |-> 0, waste_cost |-> 0]

MlReplies ==
    { NoMl,
      [configured |-> TRUE, status_code |-> 500, waste_grams |-> 0, waste_cost |-> 0],
      [configured |-> TRUE, status_code |-> 200, waste_grams |-> 120, waste_cost |-> 3] }

_estimate_with_ml(u, ml, now) ==
    IF ml.configured /\ ml.status_code = 200
    THEN [total_waste_grams |-> float(ml.waste_grams, 1),
          total_waste_cost |-> float(ml.waste_cost, 1), method |-> "ML_API"]
    ELSE estimate_weekly_waste_rules(u, now)

estimate_weekly_waste(u, use_ml, ml, now) ==
    IF use_ml /\ ml.configured THEN _estimate_with_ml(u, ml, now)
    ELSE estimate_weekly_waste_rules(u, now)

RECURSIVE GCD(_, _)
GCD(a, b) == IF b = 0 THEN a ELSE GCD(b, a % b)

\* A ratio of two gram sums in lowest terms.
Ratio(n, d) == LET g == GCD(n, d) IN [num |-> n \div g, den |-> d \div g]

smooth_trend_unclamped(trend_ratio) == trend_ratio

\* min(1.1, max(0.9, trend_ratio))
smooth_trend(trend_ratio) ==
    IF 10 * trend_ratio.num < 9 * trend_ratio.den THEN [num |-> 9, den |-> 10]
    ELSE IF 10 * trend_ratio.num > 11 * trend_ratio.den THEN [num |-> 11, den |-> 10]
    ELSE trend_ratio

\* status='expired', two_weeks_ago <= expiration_date < one_week_ago
week1_expired(u, now) ==
    {i \in OwnedBy(u) :
        /\ items[i].status = "expired"
        /\ items[i].expiration_date # Null
        /\ Val(items[i].expiration_date) >= now - 14
        /\ Val(items[i].expiration_date) < now - 7}

week_waste(ids) ==
    SumOver([i \in ids |-> _convert_to_grams(items[i].quantity, items[i].unit)], ids)

\* The trend factor as a fraction num / den.
_calculate_waste_trend(u, now) ==
    LET week1_waste == week_waste(week1_expired(u, now))
        week2_waste == week_waste(expired_items(u, now))
    IN  IF week1_waste > 0 THEN smooth_trend(Ratio(week2_waste, week1_waste))
        ELSE [num |-> 1, den |-> 1]

CallWeeklyWaste(u, use_ml, ml) ==
    /\ response' = [op |-> "estimate_weekly_waste", user |-> u,
                    result |-> estimate_weekly_waste(u, use_ml, ml, today)]
    /\ UNCHANGED <<today, month, household, items, logs, stores>>

CallWasteTrend(u) ==
    /\ response' = [op |-> "_calculate_waste_trend", user |-> u,
                    result |-> _calculate_waste_trend(u, today)]
    /\ UNCHANGED <<today, month, household, items, logs, stores>>

NextWaste ==
    \E u \in Users, use_ml \in BOOLEAN :
        \E ml \in (IF use_ml THEN MlReplies ELSE {NoMl}) : CallWeeklyWaste(u, use_ml, ml)

NextTrend == \E u \in Users : CallWasteTrend(u)

(* Inventories and logs the estimator is asked about *)

MaxWasteItems == 2

\* The rows drawn are of units and categories for which the float products
\* of the estimator are exact decimals.
\* A stored status may be stale: what update_status() stored on some earlier
\* day, the row not having been visited since; or consumed.
StaleStatuses(exp, now) == {StatusFor(exp, t) : t \in (now - 7)..now} \cup {"consumed"}

WasteRows(u, now) ==
    UNION { { [user |-> u, item_name |-> NameOf(cq[1]), quantity |-> cq[3],
               unit |-> cq[2], category |-> cq[1], purchase_date |-> now + p,
               expiration_date |-> e, status |-> st] : st \in StaleStatuses(e, now) } :
            cq \in {<<"meat", "piece", 25>>, <<"beverage", "cup", 50>>},
            p \in {-8, -2},
            e \in {Null, Some(now - 10), Some(now - 5), Some(now + 2)} }

\* Rows dated around the two weeks the trend compares.
TrendRows(users, now) ==
    UNION { { [user |-> u, item_name |-> NameOf("vegetable"), quantity |-> q,
               unit |-> "piece", category |-> "vegetable", purchase_date |-> now - 20,
               expiration_date |-> Some(now + o), status |-> st] :
              st \in StaleStatuses(Some(now + o), now) } :
            u \in users, q \in {50, 100, 105}, o \in {-15, -14, -8, -7, 0} }

\* No log; one log (frequency 30); two logs two days apart (frequency 2).
WasteLogHistories(u, now) ==
    LET log(d) == [user |-> u, item_name |-> NameOf("meat"), quantity |-> 100,
                   unit |-> "piece", category |-> "meat", date_consumed |-> now + d]
    IN  {<<>>, <<log(-1)>>, <<log(-3), log(-1)>>}

InitWaste ==
    /\ today = 0
    /\ month = 7
    /\ household = [u \in Users |-> 1]
    /\ items \in [1..MaxWasteItems -> WasteRows("alice", 0)]
    /\ logs \in WasteLogHistories("alice", 0)
    /\ response = NoResponse
    /\ NoStores

SpecWaste == InitWaste /\ [][NextWaste]_vars

MaxTrendItems == 2

InitTrend ==
    /\ today = 0
    /\ month = 7
    /\ household = [u \in Users |-> 1]
    /\ items \in [1..MaxTrendItems -> TrendRows(Users, 0)]
    /\ logs = <<>>
    /\ response = NoResponse
    /\ NoStores

SpecTrend == InitTrend /\ [][NextTrend]_vars

-----------------------------------------------------------------------------
(* Properties of the waste estimator *)

WeeklyEstimated == response.op = "estimate_weekly_waste"
RuleBased == "method" \notin DOMAIN response.result

\* C8: the weekly estimate's total_waste_grams is expired_waste_grams plus
\* pattern_waste_grams, and total_waste_cost is expired_waste_cost plus
\* pattern_waste_cost, for every inventory and log history.
C8_TotalIsExpiredPlusPattern ==
    (WeeklyEstimated /\ RuleBased) =>
        /\ response.result.total_waste_grams =
              FloatAdd(response.result.expired_waste_grams,
                       response.result.pattern_waste_grams)
        /\ response.result.total_waste_cost =
              FloatAdd(response.result.expired_waste_cost,
                       response.result.pattern_waste_cost)

\* The pattern waste of the owner's rows purchased within the last 7 days
\* whose stored status is one of those given: grams and cost, as returned.
PatternWasteOf(u, statuses, now) ==
    LET counted == {i \in OwnedBy(u) :
                       /\ items[i].purchase_date >= now - 7
                       /\ items[i].status \in statuses}
    IN  [grams |->
            float(SumOver([i \in counted |-> estimated_waste(items[i], u, now)], counted),
                  1000000),
         cost |->
            float(SumOver([i \in counted |->
                              AVG_COST_PER_UNIT(items[i].category) * items[i].quantity
                                  * waste_rate(items[i], u, now)], counted),
                  100000000)]

PatternWasteCounts(statuses) ==
    (WeeklyEstimated /\ RuleBased) =>
        LET counted == PatternWasteOf(response.user, statuses, today)
        IN  /\ response.result.pattern_waste_grams = counted.grams
            /\ response.result.pattern_waste_cost = counted.cost

\* C27 as stated: pattern waste counts only the rows purchased within the
\* last 7 days whose status is expiring_soon or expired; a fresh or a
\* consumed row adds 0 grams and 0 cost.
C27_PatternWasteOfExpiringOnly == PatternWasteCounts({"expiring_soon", "expired"})

\* C27: pattern waste counts the rows purchased within the last 7 days whose
\* status is fresh, expiring_soon or expired, each at its waste rate; a
\* consumed row and a row purchased earlier add 0 grams and 0 cost.
C27_PatternWasteOfUnconsumed ==
    PatternWasteCounts({"fresh", "expiring_soon", "expired"})

\* An estimate over a fresh row and a consumed row, both bought two days ago.
C27_Witness ==
    /\ WeeklyEstimated
    /\ RuleBased
    /\ response.result.pattern_waste_grams # FloatZero
    /\ \E i, j \in OwnedBy(response.user) :
          /\ items[i].status = "fresh"
          /\ items[j].status = "consumed"
          /\ items[i].purchase_date = today - 2
          /\ items[j].purchase_date = today - 2

TrendComputed == response.op = "_calculate_waste_trend"

\* The grams of the user's expired rows dated 14 to 7 days ago.
PreviousWeekGrams(u) ==
    SumOver([i \in DOMAIN items |->
                IF /\ items[i].user = u
                   /\ items[i].status = "expired"
                   /\ items[i].expiration_date # Null
                   /\ today - 14 <= Val(items[i].expiration_date)
                   /\ Val(items[i].expiration_date) < today - 7
                THEN _convert_to_grams(items[i].quantity, items[i].unit) ELSE 0],
            DOMAIN items)

\* C9: the trend factor lies in [0.9, 1.1], and is 1.0 when the previous week
\* has no expired-waste grams.
C9_TrendClamped ==
    TrendComputed =>
        /\ 9 * response.result.den <= 10 * response.result.num
        /\ 10 * response.result.num <= 11 * response.result.den
        /\ PreviousWeekGrams(response.user) = 0 =>
              response.result.num = response.result.den

\* A factor of 1.0 for a user whose only expired row of the previous two
\* weeks is dated exactly 7 days ago, the first day of the current week.
C9_Witness ==
    /\ TrendComputed
    /\ response.result = [num |-> 1, den |-> 1]
    /\ PreviousWeekGrams(response.user) = 0
    /\ \E i \in DOMAIN items :
          /\ items[i].user = response.user
          /\ items[i].status = "expired"
          /\ items[i].expiration_date = Some(today - 7)

-----------------------------------------------------------------------------
(* ai_analytics/ai_engine.py: the two detectors the nutrition score reads.  *)
(* Quantities are hundredths; the comparisons of the code are cross-        *)
(* multiplied so that they stay in integers.                                 *)

\* Per category, nutrient |-> value per unit.
NUTRIENT_DATABASE(category) ==
    CASE category = "vegetable" ->
            [vitamin_c |-> 50, fiber |-> 30, vitamin_a |-> 40, iron |-> 10]
      [] category = "fruit" ->
            [vitamin_c |-> 80, fiber |-> 25, vitamin_a |-> 20, potassium |-> 60]
      [] category = "dairy" ->
            [calcium |-> 90, protein |-> 40, vitamin_d |-> 30, vitamin_b12 |-> 50]
      [] category = "meat" ->
            [protein |-> 80, iron |-> 60, vitamin_b12 |-> 70, zinc |-> 50]
      [] category = "grain" ->
            [fiber |-> 40, iron |-> 20, vitamin_b |-> 30, protein |-> 15]
      [] OTHER -> [n \in {} |-> 0]

\* Tenths.
DAILY_REQUIREMENTS ==
    [vitamin_c |-> 900, fiber |-> 250, vitamin_a |-> 9000, iron |-> 180,
     calcium |-> 10000, protein |-> 500, vitamin_d |-> 200, vitamin_b12 |-> 24,
     potassium |-> 35000, zinc |-> 110, vitamin_b |-> 15]

\* Percent; the code holds them as fractions (0.30, ...).
expected_distribution ==
    [vegetable |-> 30, fruit |-> 20, grain |-> 25, dairy |-> 10, meat |-> 10,
     other |-> 5]

\* food_logs.filter(date_consumed__gte=thirty_days_ago)
recent_logs(u, now) ==
    {k \in 1..Len(logs) : logs[k].user = u /\ logs[k].date_consumed >= now - 30}

\* actual_pct = category_total / total_quantity * 100 is compared with the
\* FRACTION expected_pct times 0.5, 0.3 or 1.5, as the code does.
detect_category_imbalances(u, now) ==
    LET recent == recent_logs(u, now)
        total_quantity == SumQuantity(logs, recent)
        category_total(c) == SumQuantity(logs, {k \in recent : logs[k].category = c})
        under(c) == 20000 * category_total(c) < expected_distribution[c] * total_quantity
        high(c) == 100000 * category_total(c) < 3 * expected_distribution[c] * total_quantity
        over(c) == 20000 * category_total(c) > 3 * expected_distribution[c] * total_quantity
    IN  IF total_quantity = 0 THEN {}
        ELSE {[category |-> c, type |-> "under_consumption",
               severity |-> IF high(c) THEN "high" ELSE "medium"] :
                 c \in {x \in DOMAIN expected_distribution : under(x)}}
             \cup
             {[category |-> c, type |-> "over_consumption", severity |-> "medium"] :
                 c \in {x \in DOMAIN expected_distribution : ~under(x) /\ over(x)}}

\* The nutrients with a gap above 20 percent, each with the three thresholds
\* the nutrition score tests on gap_percentage.
detect_nutrient_gaps(u, now) ==
    LET recent == recent_logs(u, now)
        dates == {logs[k].date_consumed : k \in recent}
        days_tracked == IF dates = {} THEN 1 ELSE Cardinality(dates)
        tracked == UNION {DOMAIN NUTRIENT_DATABASE(logs[k].category) : k \in recent}
        \* sum of value_per_unit * quantity, in 1e-4
        nutrient_total(n) ==
            SumOver([k \in recent |->
                        IF n \in DOMAIN NUTRIENT_DATABASE(logs[k].category)
                        THEN NUTRIENT_DATABASE(logs[k].category)[n] * logs[k].quantity
                        ELSE 0], recent)
        \* gap_pct > t, with gap_pct = max(0, (required - daily_avg) / required * 100)
        gap_above(n, t) ==
            nutrient_total(n) < DAILY_REQUIREMENTS[n] * (100 - t) * days_tracked * 10
    IN  {[nutrient |-> n, above50 |-> gap_above(n, 50), above30 |-> gap_above(n, 30),
          above15 |-> gap_above(n, 15)] :
            n \in {x \in tracked \cap DOMAIN DAILY_REQUIREMENTS : gap_above(x, 20)}}

-----------------------------------------------------------------------------
(* ai_analytics/sdg_scorer.py: SDGImpactScorer.  Component scores are whole *)
(* points; the returned Decimals have two places and are counted in         *)
(* hundredths.                                                               *)

\* date.weekday(), Monday = 0; day 0 of the model is a Monday.
weekday(d) == d % 7

\* total_waste_grams of estimate_weekly_waste(), in millionths of a gram.
\* float() is monotone and the thresholds below are doubles, so comparing
\* the Decimal total decides as comparing the float does.
weekly_total_grams(u, now) ==
    LET parts == weekly_parts(u, now)
    IN  parts.expired_waste_grams + parts.pattern_waste_grams

_calculate_waste_trend_bonus(u, now) ==
    LET n_week1 == Cardinality(week1_expired(u, now))
        n_week2 == Cardinality(expired_items(u, now))
    IN  IF n_week1 > 0
        THEN \* improvement = (week1 - week2) / week1 * 100
             IF 100 * (n_week1 - n_week2) > 50 * n_week1 THEN 15
             ELSE IF 100 * (n_week1 - n_week2) > 25 * n_week1 THEN 10
             ELSE IF n_week1 - n_week2 > 0 THEN 5
             ELSE 0
        ELSE IF n_week2 = 0 THEN 5
        ELSE 0

_calculate_waste_reduction_score(u, week_start, now) ==
    LET waste_grams == weekly_total_grams(u, now)
        community_avg == COMMUNITY_AVERAGE_WASTE.weekly_grams
        base_score ==
            IF waste_grams = 0 THEN 100
            ELSE IF waste_grams <= community_avg * 300000 THEN 95
            ELSE IF waste_grams <= community_avg * 500000 THEN 85
            ELSE IF waste_grams <= community_avg * 700000 THEN 75
            ELSE IF waste_grams <= community_avg * 1000000 THEN 60
            ELSE IF waste_grams <= community_avg * 1500000 THEN 45
            ELSE 30
        trend_bonus == _calculate_waste_trend_bonus(u, now)
        expired_count ==
            Cardinality({i \in OwnedBy(u) :
                /\ items[i].status = "expired"
                /\ items[i].expiration_date # Null
                /\ Val(items[i].expiration_date) >= week_start})
        expired_penalty == Min(25, expired_count * 5)
        expiring_used ==
            Cardinality({i \in OwnedBy(u) :
                /\ items[i].status = "consumed"
                /\ items[i].expiration_date # Null
                /\ Val(items[i].expiration_date) >= week_start - 7
                /\ Val(items[i].expiration_date) <= week_start + 7})
        usage_bonus == Min(10, expiring_used * 2)
    IN  Max(0, Min(100, base_score + trend_bonus - expired_penalty + usage_bonus))

\* FoodLog.objects.filter(user=user, date_consumed__gte=week_start)
week_logs(u, week_start) ==
    {k \in 1..Len(logs) : logs[k].user = u /\ logs[k].date_consumed >= week_start}

\* base_score of _calculate_nutrition_score before the final clamp.
nutrition_base_score(u, week_start, now) ==
    LET imbalances == detect_category_imbalances(u, now)
        nutrient_gaps == detect_nutrient_gaps(u, now)
        week == week_logs(u, week_start)
        imbalance_penalty(x) ==
            IF x.type = "under_consumption"
            THEN (IF x.severity = "high" THEN 20
                  ELSE IF x.severity = "medium" THEN 12 ELSE 6)
            ELSE (IF x.severity = "high" THEN 10 ELSE 5)
        gap_penalty(g) ==
            IF g.above50 THEN 25 ELSE IF g.above30 THEN 15
            ELSE IF g.above15 THEN 8 ELSE 3
        unique_categories == Cardinality({logs[k].category : k \in week})
        veg_fruit_logs ==
            Cardinality({k \in week : logs[k].category \in {"vegetable", "fruit"}})
    IN  100
        - SumOver([x \in imbalances |-> imbalance_penalty(x)], imbalances)
        - SumOver([g \in nutrient_gaps |-> gap_penalty(g)], nutrient_gaps)
        + (IF unique_categories >= 6 THEN 15 ELSE IF unique_categories >= 5 THEN 10
           ELSE IF unique_categories >= 4 THEN 5 ELSE IF unique_categories >= 3 THEN 2
           ELSE 0)
        + (IF Cardinality(week) >= 14 THEN 10 ELSE IF Cardinality(week) >= 7 THEN 5
           ELSE 0)
        + (IF veg_fruit_logs >= 10 THEN 10 ELSE IF veg_fruit_logs >= 5 THEN 5 ELSE 0)

_calculate_nutrition_score_unclamped(u, week_start, now) ==
    nutrition_base_score(u, week_start, now)

_calculate_nutrition_score(u, week_start, now) ==
    Max(0, Min(100, nutrition_base_score(u, week_start, now)))

_calculate_sustainability_score(u, week_start, now) ==
    LET waste_grams == weekly_total_grams(u, now)
        community_avg == COMMUNITY_AVERAGE_WASTE.weekly_grams
        expiring_used ==
            Cardinality({i \in OwnedBy(u) :
                /\ items[i].status = "consumed"
                /\ items[i].expiration_date # Null
                /\ Val(items[i].expiration_date) >= week_start - 7})
        n_week_logs == Cardinality(week_logs(u, week_start))
    IN  Max(0, Min(100,
            60
            + (IF waste_grams <= community_avg * 500000 THEN 20
               ELSE IF waste_grams <= community_avg * 700000 THEN 15
               ELSE IF waste_grams <= community_avg * 1000000 THEN 10
               ELSE IF waste_grams <= community_avg * 1200000 THEN 5 ELSE 0)
            + (IF expiring_used >= 5 THEN 15 ELSE IF expiring_used >= 3 THEN 10
               ELSE IF expiring_used >= 1 THEN 5 ELSE 0)
            + (IF n_week_logs >= 14 THEN 10 ELSE IF n_week_logs >= 7 THEN 5 ELSE 0)))

\* The scores of the returned dict, in hundredths.  week_start_date is Null
\* for the default, the Monday of the current week.
calculate_sdg_score(u, week_start_date, now) ==
    LET week_start == IF week_start_date = Null THEN now - weekday(now)
                      ELSE Val(week_start_date)
        waste_score == _calculate_waste_reduction_score(u, week_start, now)
        nutrition_score == _calculate_nutrition_score(u, week_start, now)
        sustainability_score == _calculate_sustainability_score(u, week_start, now)
        \* waste * 0.40 + nutrition * 0.35 + sustainability * 0.25, in 1e-4; for
        \* whole components in 0..100 round(., 2) of the double sum is this
        \* value to two places
        overall_score == waste_score * 4000 + nutrition_score * 3500
                            + sustainability_score * 2500
    IN  [overall_score |-> RoundDiv(overall_score, 100),
         waste_reduction_score |-> waste_score * 100,
         nutrition_score |-> nutrition_score * 100,
         sustainability_score |-> sustainability_score * 100,
         week_start_date |-> week_start]

CallSdgScore(u, week_start_date) ==
    /\ response' = [op |-> "calculate_sdg_score", user |-> u,
                    week_start_date |-> week_start_date,
                    result |-> calculate_sdg_score(u, week_start_date, today)]
    /\ UNCHANGED <<today, month, household, items, logs, stores>>

\* The dashboard asks for the current week, get_weekly_insights also for the
\* week before.
NextSdg ==
    \E u \in Users,
       w \in {Null, Some(today - weekday(today) - 7)} : CallSdgScore(u, w)

(* Inventories and logs the scorer is asked about *)

MaxSdgItems == 2

SdgRows(u, now) ==
    UNION { { [user |-> u, item_name |-> NameOf("vegetable"), quantity |-> r[1],
               unit |-> "piece", category |-> "vegetable", purchase_date |-> now + r[2],
               expiration_date |-> r[3], status |-> st] : st \in StaleStatuses(r[3], now) } :
            r \in {<<100, -2, Null>>, <<100, -2, Some(now - 2)>>,
                   <<100, -2, Some(now + 2)>>, <<100, -10, Some(now - 9)>>,
                   <<300, -10, Some(now - 9)>>, <<300, -10, Some(now - 2)>>,
                   <<300, -2, Some(now - 2)>>, <<300, -2, Some(now + 2)>>} }

\* No log; one dairy log; one log of each of six categories on one day.
SdgLogHistories(u, now) ==
    LET log(c, q, d) == [user |-> u, item_name |-> NameOf(c), quantity |-> q,
                         unit |-> "piece", category |-> c, date_consumed |-> now + d]
    IN  {<<>>}
        \cup {<<log("dairy", 350, d)>> : d \in {-5, 0}}
        \cup {<<log("vegetable", 10000, d), log("fruit", 10000, d),
                log("grain", 10000, d), log("dairy", 10000, d),
                log("meat", 10000, d), log("other", 10000, d)>> : d \in {-5, 0}}

InitSdg ==
    /\ today \in {0, 3}
    /\ month = 7
    /\ household = [u \in Users |-> 1]
    /\ items \in [1..MaxSdgItems -> SdgRows("alice", today)]
    /\ logs \in SdgLogHistories("alice", today)
    /\ response = NoResponse
    /\ NoStores

SpecSdg == InitSdg /\ [][NextSdg]_vars

-----------------------------------------------------------------------------
(* Properties of the SDG scorer *)

Scored == response.op = "calculate_sdg_score"

\* C10: every result of calculate_sdg_score has its three component scores
\* in [0, 100], and overall_score is 0.40 * waste_reduction_score + 0.35 *
\* nutrition_score + 0.25 * sustainability_score rounded to two decimals, so
\* it is in [0, 100] as well.
C10_ComponentsBoundedOverallWeighted ==
    Scored =>
        LET r == response.result
        IN  /\ 0 <= r.waste_reduction_score /\ r.waste_reduction_score <= 10000
            /\ 0 <= r.nutrition_score /\ r.nutrition_score <= 10000
            /\ 0 <= r.sustainability_score /\ r.sustainability_score <= 10000
            /\ r.overall_score =
                  RoundDiv(40 * r.waste_reduction_score + 35 * r.nutrition_score
                              + 25 * r.sustainability_score, 100)
            /\ 0 <= r.overall_score /\ r.overall_score <= 10000

\* A result whose nutrition score is strictly between the ends, whose waste
\* score was cut to 100, and whose overall score is not a whole number.
C10_Witness ==
    /\ Scored
    /\ response.result.waste_reduction_score = 10000
    /\ response.result.nutrition_score = 1000
    /\ response.result.overall_score % 100 # 0
    /\ weekly_total_grams(response.user, today) = 0
    /\ _calculate_waste_trend_bonus(response.user, today) = 5

-----------------------------------------------------------------------------
(* ai_analytics/meal_optimizer.py: MealOptimizer, the rule-based plan.      *)
(* One run is the variable plan; one step of the run is one pass of the     *)
(* loop over the 7 days x 3 meals.  Money is in thousandths (a cost is a    *)
(* price in cents times a seasonal factor in tenths); the catalogs of the   *)
(* model hold prices whose float product base_cost * seasonal_factor prints *)
(* as the exact decimal.  The nutrition totals, which only steer the choice *)
(* among the affordable catalog items, are not kept: that choice is left    *)
(* open, so every plan the value score can select is a behaviour.           *)

days == <<"Monday", "Tuesday", "Wednesday", "Thursday", "Friday", "Saturday", "Sunday">>

meal_configs ==
    <<[meal_type |-> "breakfast", preferred_categories |-> {"grain", "fruit", "dairy"}],
      [meal_type |-> "lunch", preferred_categories |-> {"vegetable", "meat", "grain"}],
      [meal_type |-> "dinner", preferred_categories |-> {"meat", "vegetable", "grain"}]>>

Slots == Len(days) * Len(meal_configs)

\* The k-th slot in the order of the two nested loops.
SlotDay(k) == days[((k - 1) \div Len(meal_configs)) + 1]
SlotMeal(k) == meal_configs[((k - 1) % Len(meal_configs)) + 1]

\* base in cents, seasonal_factor in tenths
LOCAL_COST_DATA(category) ==
    CASE category = "vegetable" -> [base |-> 250, seasonal_factor |-> 8]
      [] category = "fruit" -> [base |-> 300, seasonal_factor |-> 7]
      [] category = "dairy" -> [base |-> 400, seasonal_factor |-> 10]
      [] category = "meat" -> [base |-> 800, seasonal_factor |-> 10]
      [] category = "grain" -> [base |-> 200, seasonal_factor |-> 10]
      [] category = "beverage" -> [base |-> 250, seasonal_factor |-> 10]
      [] category = "snack" -> [base |-> 350, seasonal_factor |-> 10]
      [] category = "other" -> [base |-> 300, seasonal_factor |-> 10]
      [] OTHER -> [base |-> 300, seasonal_factor |-> 10]

\* In thousandths.  A NULL or zero sample_cost_per_unit is falsy.
_get_local_cost(category, food_item) ==
    LET cost_data == LOCAL_COST_DATA(category)
        base_cost == IF food_item.sample_cost_per_unit # Null
                        /\ Val(food_item.sample_cost_per_unit) # 0
                     THEN Val(food_item.sample_cost_per_unit)
                     ELSE cost_data.base
    IN  base_cost * cost_data.seasonal_factor

\* budget_map of optimize_weekly_meal_plan; every profile of the model has
\* the default budget_range.
DefaultBudget == 75000

\* self.inventory_items of __init__, by stored status.
available_items(u) == {i \in OwnedBy(u) : items[i].status \in {"fresh", "expiring_soon"}}

\* "item.id not in used_inventory and item.category in preferred_categories"
matches_always(i, used_inventory, preferred_categories) ==
    items[i].category \in preferred_categories

matches(i, used_inventory, preferred_categories) ==
    i \notin used_inventory /\ items[i].category \in preferred_categories

\* order_by('expiration_date', 'status'): j comes before i for certain.
\* Where NULL dates sort, and the order of equal keys, is the database's.
SortsBefore(j, i) ==
    /\ items[j].expiration_date # Null
    /\ items[i].expiration_date # Null
    /\ \/ Val(items[j].expiration_date) < Val(items[i].expiration_date)
       \/ /\ Val(items[j].expiration_date) = Val(items[i].expiration_date)
          /\ items[j].status = "expiring_soon" /\ items[i].status = "fresh"

FirstMatching_until_used(list, used_inventory, preferred_categories) ==
    IF list \cap used_inventory # {} THEN {}
    ELSE {i \in list : items[i].category \in preferred_categories}

\* The items a loop "for item in ...: if matches: ...; break" can stop at.
FirstMatching(list, used_inventory, preferred_categories) ==
    LET found == {i \in list : matches(i, used_inventory, preferred_categories)}
    IN  {i \in found : \A j \in found : ~SortsBefore(j, i)}

\* "if cost > remaining_budget: continue"
within_budget_always(cost, remaining_budget) == TRUE

within_budget(cost, remaining_budget) == ~(cost > remaining_budget)

\* The catalog items _suggest_meal_item_optimized can return: best_score
\* starts at -1 and a value score is never negative, so an item is returned
\* whenever one passes the cost test.
_suggest_meal_item_optimized(preferred_categories, remaining_budget) ==
    {f \in DOMAIN catalog :
        /\ catalog[f].category \in preferred_categories
        /\ within_budget(_get_local_cost(catalog[f].category, catalog[f]),
                         remaining_budget)}

_create_meal_item_from_inventory(i, expiring) ==
    [item |-> items[i].item_name, source |-> "inventory", expiring |-> expiring,
     category |-> items[i].category, cost |-> 0, id |-> i]

SuggestedItem(f) ==
    [item |-> catalog[f].name, source |-> "food_database", expiring |-> FALSE,
     category |-> catalog[f].category,
     cost |-> _get_local_cost(catalog[f].category, catalog[f]), id |-> f]

\* meal_items of a slot for which nothing was found
NoMealItems == [source |-> "none", cost |-> 0]

\* optimize_weekly_meal_plan up to the first pass of the loop; budget_limit
\* is NULL when the form field was left empty.
OptimizeStart(u, budget_limit) ==
    /\ plan.pc = "idle"
    /\ plan' = [pc |-> "running", user |-> u,
                budget_limit |-> IF budget_limit = Null THEN DefaultBudget
                                 ELSE Val(budget_limit),
                remaining_budget |-> IF budget_limit = Null THEN DefaultBudget
                                     ELSE Val(budget_limit),
                expiring_items |-> {i \in available_items(u) :
                                       items[i].status = "expiring_soon"},
                fresh_items |-> {i \in available_items(u) : items[i].status = "fresh"},
                used_inventory |-> {}, waste_reduction |-> 0, meals |-> <<>>]
    /\ UNCHANGED <<today, month, household, items, logs, response, catalog,
                   sdg_scores, requests, notifications, outbox,
                   waste_predictions>>

\* One pass of "for meal_type, preferred_categories in meal_configs".
AssignSlot ==
    /\ plan.pc = "running"
    /\ Len(plan.meals) < Slots
    /\ LET preferred_categories == SlotMeal(Len(plan.meals) + 1).preferred_categories
           expiring == FirstMatching(plan.expiring_items, plan.used_inventory,
                                     preferred_categories)
           fresh == FirstMatching(plan.fresh_items, plan.used_inventory,
                                  preferred_categories)
           suggested == _suggest_meal_item_optimized(preferred_categories,
                                                     plan.remaining_budget)
       IN  IF expiring # {}
           THEN \E i \in expiring :
                   plan' = [plan EXCEPT
                       !.meals = Append(@, _create_meal_item_from_inventory(i, TRUE)),
                       !.used_inventory = @ \cup {i},
                       !.waste_reduction = @ + 1]
           ELSE IF fresh # {}
           THEN \E i \in fresh :
                   plan' = [plan EXCEPT
                       !.meals = Append(@, _create_meal_item_from_inventory(i, FALSE)),
                       !.used_inventory = @ \cup {i}]
           ELSE IF suggested # {}
           THEN \E f \in suggested :
                   plan' = [plan EXCEPT
                       !.meals = Append(@, SuggestedItem(f)),
                       !.remaining_budget = @ - SuggestedItem(f).cost]
           ELSE plan' = [plan EXCEPT !.meals = Append(@, NoMealItems)]
    /\ UNCHANGED <<today, month, household, items, logs, response, catalog,
                   sdg_scores, requests, notifications, outbox,
                   waste_predictions>>

\* The sum of the costs of the catalog items among the first n slots.
RECURSIVE CatalogSpend(_, _)
CatalogSpend(meals, n) ==
    IF n = 0 THEN 0
    ELSE CatalogSpend(meals, n - 1)
         + (IF meals[n].source = "food_database" THEN meals[n].cost ELSE 0)

\* After the loops: the shopping list is the catalog items of the plan, its
\* total their cost.
OptimizeFinish ==
    /\ plan.pc = "running"
    /\ Len(plan.meals) = Slots
    /\ plan' = [plan EXCEPT !.pc = "done"]
    /\ response' = [op |-> "optimize_weekly_meal_plan", user |-> plan.user,
                    result |-> [days |-> plan.meals,
                                total_cost |-> CatalogSpend(plan.meals, Slots),
                                budget_limit |-> plan.budget_limit,
                                waste_reduction |-> plan.waste_reduction]]
    /\ UNCHANGED <<today, month, household, items, logs, catalog,
                   sdg_scores, requests, notifications, outbox,
                   waste_predictions>>

\* The budgets posted to the meal_optimizer view, which takes any float.
Budgets == {Null, Some(-1000), Some(0), Some(3500), Some(5000)}

NextMeal ==
    \/ \E u \in Users, b \in Budgets : OptimizeStart(u, b)
    \/ AssignSlot
    \/ OptimizeFinish

MaxMealItems == 2

MealRows(u, now) ==
    { [user |-> u, item_name |-> NameOf(c), quantity |-> 100, unit |-> "piece",
       category |-> c, purchase_date |-> now - 1, expiration_date |-> Some(now + d),
       status |-> st] :
         c \in {"grain", "meat"}, d \in {2}, st \in {"expiring_soon", "fresh", "consumed"} }

\* Catalogs of the seeded FoodItem table.
Catalogs ==
    LET food(n, c, cost) == [name |-> n, category |-> c, sample_cost_per_unit |-> cost,
                             unit |-> "piece"]
    IN  { <<>>,
          <<food("Rice", "grain", Some(0)), food("Milk", "dairy", Some(150))>>,
          <<food("Saffron rice", "grain", Some(3000)),
            food("Truffle", "vegetable", Some(4000))>> }

InitMeal ==
    /\ today = 0
    /\ month = 7
    /\ household = [u \in Users |-> 1]
    /\ \E n \in 0..MaxMealItems : items \in [1..n -> MealRows("alice", 0)]
    /\ logs = <<>>
    /\ response = NoResponse
    /\ catalog \in Catalogs
    /\ plan = NoPlan
    /\ sdg_scores = <<>>
    /\ requests = <<>>
    /\ notifications = <<>>
    /\ outbox = <<>>
    /\ waste_predictions = <<>>

SpecMeal == InitMeal /\ [][NextMeal]_vars

-----------------------------------------------------------------------------
(* Properties of the meal optimizer *)

Planning == plan.pc \in {"running", "done"}

\* C11 as stated: after every slot assignment the catalog items assigned so
\* far cost at most budget_limit in total, and each catalog item cost at most
\* the budget that remained when it was assigned.
C11_SpendWithinBudget ==
    (Planning /\ Len(plan.meals) > 0) =>
        /\ CatalogSpend(plan.meals, Len(plan.meals)) <= plan.budget_limit
        /\ \A k \in 1..Len(plan.meals) :
              plan.meals[k].source = "food_database" =>
                  plan.meals[k].cost <= plan.budget_limit - CatalogSpend(plan.meals, k - 1)

\* C11, for a budget_limit that is not negative: after every slot assignment
\* the catalog items assigned so far cost at most budget_limit in total; and
\* for every budget_limit each catalog item cost at most the budget that
\* remained when it was assigned.
C11_SpendWithinNonNegativeBudget ==
    (Planning /\ Len(plan.meals) > 0) =>
        /\ plan.budget_limit >= 0 =>
              CatalogSpend(plan.meals, Len(plan.meals)) <= plan.budget_limit
        /\ plan.remaining_budget =
              plan.budget_limit - CatalogSpend(plan.meals, Len(plan.meals))
        /\ \A k \in 1..Len(plan.meals) :
              plan.meals[k].source = "food_database" =>
                  plan.meals[k].cost <= plan.budget_limit - CatalogSpend(plan.meals, k - 1)

\* A finished plan that spent the whole budget with its last purchase, and
\* then left a slot empty.
C11_Witness ==
    /\ plan.pc = "done"
    /\ plan.budget_limit > 0
    /\ CatalogSpend(plan.meals, Slots) = plan.budget_limit
    /\ \E k \in 1..Slots : plan.meals[k].source = "food_database"
    /\ \E k \in 1..Slots : plan.meals[k].source = "none"

\* C12: no inventory id is assigned to two slots of the plan.
C12_InventoryUsedAtMostOnce ==
    Planning =>
        \A k, l \in 1..Len(plan.meals) :
            (/\ plan.meals[k].source = "inventory"
             /\ plan.meals[l].source = "inventory"
             /\ plan.meals[k].id = plan.meals[l].id) => k = l

\* A finished plan with two inventory items in it and, after them, a slot
\* they would have matched again.
C12_Witness ==
    /\ plan.pc = "done"
    /\ \E k, l \in 1..Slots :
          /\ k < l
          /\ plan.meals[k].source = "inventory"
          /\ plan.meals[l].source = "inventory"
          /\ \E m \in (l + 1)..Slots :
                /\ plan.meals[m].source # "inventory"
                /\ items[plan.meals[k].id].category \in SlotMeal(m).preferred_categories

\* The inventory ids assigned to the slots before slot k.
UsedBefore(k) ==
    {plan.meals[l].id : l \in {m \in 1..(k - 1) : plan.meals[m].source = "inventory"}}

\* The owner's rows of the given status that no earlier slot uses and that
\* are of a category slot k prefers.
UnusedMatching(k, status) ==
    {i \in OwnedBy(plan.user) :
        /\ items[i].status = status
        /\ i \notin UsedBefore(k)
        /\ items[i].category \in SlotMeal(k).preferred_categories}

\* C28: a slot holds a fresh inventory item only if no unused expiring_soon
\* item matched the slot's preferred categories, and a catalog item only if
\* no unused inventory item, expiring_soon or fresh, matched; a slot holds
\* one item at most, so the three sources exclude one another.
C28_SlotPriority ==
    Planning =>
        \A k \in 1..Len(plan.meals) :
            LET meal == plan.meals[k]
            IN  /\ (meal.source = "inventory" /\ ~meal.expiring) =>
                      /\ items[meal.id].status = "fresh"
                      /\ UnusedMatching(k, "expiring_soon") = {}
                /\ (meal.source = "inventory" /\ meal.expiring) =>
                      meal.id \in UnusedMatching(k, "expiring_soon")
                /\ meal.source = "food_database" =>
                      /\ UnusedMatching(k, "expiring_soon") = {}
                      /\ UnusedMatching(k, "fresh") = {}

\* A plan whose first slot took the expiring row, whose second slot took
\* the fresh row of the same category, and whose third slot, that both rows
\* would have matched, holds a catalog item.
C28_Witness ==
    /\ plan.pc = "done"
    /\ plan.meals[1].source = "inventory" /\ plan.meals[1].expiring
    /\ plan.meals[2].source = "inventory" /\ ~plan.meals[2].expiring
    /\ plan.meals[3].source = "food_database"
    /\ \A i \in {plan.meals[1].id, plan.meals[2].id} :
          \A k \in 1..3 : items[i].category \in SlotMeal(k).preferred_categories

-----------------------------------------------------------------------------
(* ai_analytics/sdg_scorer.py: the stored weekly scores (SDGImpactScore),   *)
(* the week-over-week comparison and the sdg_impact view that saves them.   *)

\* Python's n * x for an int 0 <= n <= 100 and a float x > 0: the 60-bit
\* product in four 13-bit digits and a top part, cut to 53 bits, a tie to
\* the even mantissa.
FloatMulInt(n, x) ==
    IF n = 0 THEN FloatZero
    ELSE LET p0 == n * (x.lo % 2^13)
             p1 == n * (x.lo \div 2^13) + (p0 \div 2^13)
             p2 == n * (x.hi % 2^13) + (p1 \div 2^13)
             d3 == n * (x.hi \div 2^13) + (p2 \div 2^13)
             d2 == p2 % 2^13
             low == (p1 % 2^13) * 2^13 + (p0 % 2^13)
             sh == BitLen(d3) - 14
             hi == (d3 \div 2^sh) * 2^13 + (((d3 % 2^sh) * 2^13 + d2) \div 2^sh)
             lo == (d2 % 2^sh) * 2^(26 - sh) + (low \div 2^sh)
             rem == low % 2^sh
         IN  IF sh > 0 /\ (2 * rem > 2^sh \/ (2 * rem = 2^sh /\ lo % 2 = 1))
             THEN NextUp(hi, lo, x.e + sh)
             ELSE [hi |-> hi, lo |-> lo, e |-> x.e + sh]

\* x < y on floats that are zero or positive.
FloatLess(x, y) ==
    IF y = FloatZero THEN FALSE
    ELSE IF x = FloatZero THEN TRUE
    ELSE \/ x.e < y.e
         \/ x.e = y.e /\ x.hi < y.hi
         \/ x.e = y.e /\ x.hi = y.hi /\ x.lo < y.lo

\* The doubles 0.40, 0.35 and 0.25.
WeightWaste == [hi |-> 107374182, lo |-> 26843546, e |-> -54]
WeightNutrition == [hi |-> 93952409, lo |-> 40265318, e |-> -54]
WeightSustainability == [hi |-> 67108864, lo |-> 0, e |-> -54]

\* overall_score of calculate_sdg_score before it is rounded: the float
\* waste_score * 0.40 + nutrition_score * 0.35 + sustainability_score * 0.25.
\* (Each product and sum is bound to its value before it is used.)
Value(S) == CHOOSE v \in S : TRUE

overall_score_float(waste_score, nutrition_score, sustainability_score) ==
    Value({FloatAdd(sum, c) :
              sum \in {Value({FloatAdd(a, b) :
                                 a \in {FloatMulInt(waste_score, WeightWaste)},
                                 b \in {FloatMulInt(nutrition_score, WeightNutrition)}})},
              c \in {FloatMulInt(sustainability_score, WeightSustainability)}})

\* The stored rows of a user and week, and .first() of them under the
\* ordering ('-week_start_date', '-created_at').
ScoreRows(u, week_start) ==
    {k \in 1..Len(sdg_scores) :
        sdg_scores[k].user = u /\ sdg_scores[k].week_start_date = week_start}

\* NULL, or the stored overall_score in hundredths (the dict of floats the
\* code returns is read for this entry only).
_get_previous_week_score(u, previous_week_start) ==
    LET found == ScoreRows(u, previous_week_start)
    IN  IF found = {} THEN Null
        ELSE Some(sdg_scores[CHOOSE k \in found : \A l \in found : l <= k].overall_score)

\* current_score is the unrounded float, previous the float of the stored
\* Decimal.
trend_of(current_score, previous_data) ==
    Value({IF FloatLess(previous, current) THEN "improving"
           ELSE IF FloatLess(current, previous) THEN "declining" ELSE "stable" :
              current \in {current_score},
              previous \in {float(Val(previous_data), 100)}})

_calculate_improvement(current_score, previous_data) ==
    IF previous_data = Null THEN [trend |-> "new"]
    ELSE [trend |-> trend_of(current_score, previous_data)]

\* What the chat-completion service does for one call: no key configured,
\* the call raises, the answer has no content, or it answers with text that
\* is not JSON, a JSON value that is not an object, or a JSON object (with
\* or without the expected entry).
NoKey == [key |-> FALSE]

LlmReplies ==
    {NoKey, [key |-> TRUE, outcome |-> "raises"], [key |-> TRUE, outcome |-> "no_content"]}
    \cup {[key |-> TRUE, outcome |-> "text", text |-> t] : t \in {"waste", "hello"}}
    \cup {[key |-> TRUE, outcome |-> "json_array"]}
    \cup {[key |-> TRUE, outcome |-> "json_object", content |-> c] :
             c \in {Null, Some("A"), Some("B")}}

\* The insights are a function of these four arguments, kept as such.
_generate_rule_based_insights(waste_score, nutrition_score, sustainability_score, previous_data) ==
    [source |-> "rule_based", waste_score |-> waste_score,
     nutrition_score |-> nutrition_score,
     sustainability_score |-> sustainability_score, previous_data |-> previous_data]

\* The steps are made from the same four arguments and the user's
\* expiring rows; the texts are not modelled.
_generate_actionable_steps(u, waste_score, nutrition_score, sustainability_score, previous_data) ==
    [waste_score |-> waste_score, nutrition_score |-> nutrition_score,
     sustainability_score |-> sustainability_score, previous_data |-> previous_data,
     expiring_items |-> {items[i].item_name : i \in
                            {j \in DOMAIN items :   /\ items[j].user = u
                                                   /\ items[j].status = "expiring_soon"}}]

\* The texts of the model in which 'waste', 'nutrition' or 'diet' occurs.
KeywordTexts == {"waste"}

\* Insights made from the words of a reply that did not parse; the
\* rule-based insights, without the previous week, if no key phrase occurs.
_parse_ai_text_to_insights(text, waste_score, nutrition_score, sustainability_score) ==
    IF text \in KeywordTexts
    THEN [source |-> "ai_text", text |-> text, waste_score |-> waste_score,
          nutrition_score |-> nutrition_score,
          sustainability_score |-> sustainability_score]
    ELSE _generate_rule_based_insights(waste_score, nutrition_score,
                                       sustainability_score, Null)

_generate_ai_insights(waste_score, nutrition_score, sustainability_score, previous_data, reply) ==
    IF ~reply.key \/ reply.outcome \in {"raises", "no_content"}
    THEN _generate_rule_based_insights(waste_score, nutrition_score,
                                       sustainability_score, previous_data)
    ELSE IF reply.outcome = "json_object"
    THEN \* ai_data.get('insights', [])
         [source |-> "ai", insights |-> reply.content]
    ELSE \* json.loads or .get raised inside the inner try
         _parse_ai_text_to_insights(
             IF reply.outcome = "text" THEN reply.text ELSE "[]",
             waste_score, nutrition_score, sustainability_score)

\* The whole dict calculate_sdg_score returns.
score_dict(u, scores, previous_score_data, overall_score, use_ai, reply) ==
    LET waste_score == scores.waste_reduction_score \div 100
        nutrition_score == scores.nutrition_score \div 100
        sustainability_score == scores.sustainability_score \div 100
    IN  [overall_score |-> scores.overall_score,
         waste_reduction_score |-> scores.waste_reduction_score,
         nutrition_score |-> scores.nutrition_score,
         sustainability_score |-> scores.sustainability_score,
         week_start_date |-> scores.week_start_date,
         insights |->
            IF use_ai /\ reply.key
            THEN _generate_ai_insights(waste_score, nutrition_score,
                                       sustainability_score, previous_score_data, reply)
            ELSE _generate_rule_based_insights(waste_score, nutrition_score,
                                               sustainability_score, previous_score_data),
         actionable_steps |->
            _generate_actionable_steps(u, waste_score, nutrition_score,
                                       sustainability_score, previous_score_data),
         improvement |-> _calculate_improvement(overall_score, previous_score_data)]

sdg_score_data(u, week_start_date, use_ai, reply, now) ==
    Value({Value({score_dict(u, scores, previous_score_data, overall_score, use_ai, reply) :
                     previous_score_data \in
                        {_get_previous_week_score(u, scores.week_start_date - 7)},
                     overall_score \in
                        {overall_score_float(scores.waste_reduction_score \div 100,
                                             scores.nutrition_score \div 100,
                                             scores.sustainability_score \div 100)}}) :
              scores \in {calculate_sdg_score(u, week_start_date, now)}})

\* A call of calculate_sdg_score; what it read is kept with the answer.
CalculateSdgScore(u, week_start_date, use_ai, reply) ==
    /\ response' = [op |-> "calculate_sdg_score", user |-> u, use_ai |-> use_ai,
                    reply |-> reply,
                    read |-> <<items, logs, sdg_scores>>,
                    result |-> sdg_score_data(u, week_start_date, use_ai, reply, today)]
    /\ UNCHANGED <<today, month, household, items, logs, stores>>

(* save_weekly_score, step by step.  update_or_create is a get, then a     *)
(* create if no row was found, then (if the row was found, or the create   *)
(* met the unique constraint and the row was read again) a save of every   *)
(* field; other requests can act between the steps.                        *)

MaxRequests == 2

Idle == [pc |-> "idle"]

\* score_data = self.calculate_sdg_score(week_start_date)
SaveBegin(r, u, week_start_date, reply) ==
    /\ requests[r].pc = "idle"
    /\ requests' = [requests EXCEPT ![r] =
                       [pc |-> "calculated", user |-> u,
                        score_data |-> sdg_score_data(u, week_start_date, TRUE,
                                                      reply, today),
                        row |-> 0, integrity_error |-> FALSE]]
    /\ UNCHANGED <<today, month, household, items, logs, response, catalog, plan,
                   sdg_scores, notifications, outbox,
                   waste_predictions>>

\* The get of update_or_create.
SaveGet(r) ==
    /\ requests[r].pc = "calculated"
    /\ LET found == ScoreRows(requests[r].user, requests[r].score_data.week_start_date)
       IN  requests' = [requests EXCEPT
               ![r].pc = "got",
               ![r].row = IF found = {} THEN 0 ELSE CHOOSE k \in found : TRUE]
    /\ UNCHANGED <<today, month, household, items, logs, response, catalog, plan,
                   sdg_scores, notifications, outbox,
                   waste_predictions>>

\* The fields save_weekly_score passes as defaults.
Defaults(score_data) ==
    [overall_score |-> score_data.overall_score,
     waste_reduction_score |-> score_data.waste_reduction_score,
     nutrition_score |-> score_data.nutrition_score,
     sustainability_score |-> score_data.sustainability_score,
     insights |-> score_data.insights,
     actionable_steps |-> score_data.actionable_steps]

\* unique_together = ['user', 'week_start_date']
unique_together_unchecked(u, week_start) == TRUE

unique_together(u, week_start) == ScoreRows(u, week_start) = {}

\* The create: the INSERT, or the IntegrityError after which the row is read
\* again.
SaveCreate(r) ==
    /\ requests[r].pc = "got"
    /\ requests[r].row = 0
    /\ LET u == requests[r].user
           week_start == requests[r].score_data.week_start_date
       IN  IF unique_together(u, week_start)
           THEN /\ sdg_scores' = Append(sdg_scores,
                      [user |-> u, week_start_date |-> week_start,
                       written_by |-> r] @@ Defaults(requests[r].score_data))
                /\ requests' = [requests EXCEPT ![r].pc = "done"]
           ELSE /\ requests' = [requests EXCEPT
                      ![r].row = CHOOSE k \in ScoreRows(u, week_start) : TRUE,
                      ![r].integrity_error = TRUE]
                /\ UNCHANGED sdg_scores
    /\ UNCHANGED <<today, month, household, items, logs, response, catalog, plan,
                   notifications, outbox,
                   waste_predictions>>

\* The row after "for k, v in defaults: setattr(obj, k, v)" and obj.save(),
\* which writes every column.
updated_not_saved(row, r, score_data) == row

updated(row, r, score_data) ==
    [user |-> row.user, week_start_date |-> row.week_start_date, written_by |-> r]
        @@ Defaults(score_data)

SaveUpdate(r) ==
    /\ requests[r].pc = "got"
    /\ requests[r].row # 0
    /\ sdg_scores' = [sdg_scores EXCEPT ![requests[r].row] =
                         updated(@, r, requests[r].score_data)]
    /\ requests' = [requests EXCEPT ![r].pc = "done"]
    /\ UNCHANGED <<today, month, household, items, logs, response, catalog, plan,
                   notifications, outbox,
                   waste_predictions>>

\* The week arguments of the model: the current week, or the week before.
WeekArgs == {Null, Some(today - weekday(today) - 7)}

StoreReplies == {NoKey, [key |-> TRUE, outcome |-> "json_object", content |-> Some("A")]}

\* The view returns; the request is over.
SaveReturn(r) ==
    /\ requests[r].pc = "done"
    /\ requests' = [requests EXCEPT ![r] = Idle]
    /\ UNCHANGED <<today, month, household, items, logs, response, catalog, plan,
                   sdg_scores, notifications, outbox,
                   waste_predictions>>

\* Requests of the sdg_impact view side by side.
NextSdgStore ==
    \/ \E r \in 1..MaxRequests, u \in Users, w \in WeekArgs, reply \in StoreReplies :
          SaveBegin(r, u, w, reply)
    \/ \E r \in 1..MaxRequests : SaveGet(r)
    \/ \E r \in 1..MaxRequests : SaveCreate(r)
    \/ \E r \in 1..MaxRequests : SaveUpdate(r)
    \/ Tick

\* save_weekly_score called again only after the call before has returned.
NextSdgSave ==
    \/ \E u \in Users, w \in WeekArgs : SaveBegin(1, u, w, NoKey)
    \/ SaveGet(1)
    \/ SaveCreate(1)
    \/ SaveUpdate(1)
    \/ SaveReturn(1)
    \/ Tick

\* A whole call of save_weekly_score with no other request in between: the
\* steps above one after the other.
save_weekly_score(u, week_start_date) ==
    /\ \E score_data \in {sdg_score_data(u, week_start_date, TRUE, NoKey, today)} :
          LET found == ScoreRows(u, score_data.week_start_date)
          IN  sdg_scores' =
                 IF found = {}
                 THEN Append(sdg_scores,
                         [user |-> u, week_start_date |-> score_data.week_start_date,
                          written_by |-> 0] @@ Defaults(score_data))
                 ELSE [sdg_scores EXCEPT ![CHOOSE k \in found : TRUE] =
                          updated(@, 0, score_data)]
    /\ UNCHANGED <<today, month, household, items, logs, response, catalog, plan,
                   requests, notifications, outbox,
                   waste_predictions>>

\* One request after the other: the owner of the inventory saves scores,
\* and any user asks for scores.
NextSdgTrend ==
    \/ \E u \in Users, w \in WeekArgs : CalculateSdgScore(u, w, FALSE, NoKey)
    \/ \E w \in WeekArgs : save_weekly_score("alice", w)
    \/ Tick

MaxStoreItems == 2

StoreRows(u, now) ==
    { [user |-> u, item_name |-> NameOf("vegetable"), quantity |-> r[1],
       unit |-> "piece", category |-> "vegetable", purchase_date |-> now + r[2],
       expiration_date |-> Some(now + r[3]), status |-> r[4]] :
         r \in {<<500, -2, 5, "fresh">>, <<100, -10, -1, "consumed">>,
                <<100, -10, -7, "expired">>} }

InitSdgStore ==
    /\ today = 0
    /\ month = 7
    /\ household = [u \in Users |-> 1]
    /\ \E n \in 0..MaxStoreItems : items \in [1..n -> StoreRows("alice", 0)]
    /\ logs = <<>>
    /\ response = NoResponse
    /\ catalog = <<>>
    /\ plan = NoPlan
    /\ sdg_scores = <<>>
    /\ requests = [r \in 1..MaxRequests |-> Idle]
    /\ notifications = <<>>
    /\ outbox = <<>>
    /\ waste_predictions = <<>>

SpecSdgStore == InitSdgStore /\ [][NextSdgStore]_vars

SpecSdgSave == InitSdgStore /\ [][NextSdgSave]_vars

SpecSdgTrend == InitSdgStore /\ [][NextSdgTrend]_vars

-----------------------------------------------------------------------------
(* Properties of the stored SDG scores *)

Calculated(resp) == resp.op = "calculate_sdg_score"

\* C13: calculate_sdg_score changes no stored record, and two successive
\* calls for the same owner and week that read the same inventory, log and
\* stored scores return the same result.  Stated for calls with use_ai off,
\* which leaves the text-generation service out.
C13_CalculateIsPure ==
    [][/\ response' # response => UNCHANGED <<items, logs, sdg_scores>>
       /\ (/\ Calculated(response) /\ Calculated(response')
           /\ ~response.use_ai /\ ~response'.use_ai
           /\ response'.user = response.user
           /\ response'.result.week_start_date = response.result.week_start_date
           /\ response'.read = response.read)
          => response'.result = response.result]_vars

Key(row) == <<row.user, row.week_start_date>>

Finished == {r \in 1..MaxRequests : requests[r].pc = "done"}

KeyOf(r) == <<requests[r].user, requests[r].score_data.week_start_date>>

\* C14: when save_weekly_score is called again and again (the date moving
\* on in between), there is at most one stored score per (owner,
\* week_start_date), and when a call has returned the stored row of its key
\* holds the scores and insights that call computed.
C14_UpsertKeepsLatest ==
    /\ \A k, l \in 1..Len(sdg_scores) : Key(sdg_scores[k]) = Key(sdg_scores[l]) => k = l
    /\ \A r \in Finished :
          \E k \in 1..Len(sdg_scores) :
             /\ Key(sdg_scores[k]) = KeyOf(r)
             /\ \A f \in DOMAIN Defaults(requests[r].score_data) :
                   sdg_scores[k][f] = requests[r].score_data[f]

\* A call on the last day that found the row an earlier call had made for
\* its key and saved its own scores over it, the row of the other week
\* stored beside it with another overall score.
C14_Witness ==
    \E r \in Finished :
        /\ requests[r].row # 0
        /\ Len(sdg_scores) = 2
        /\ \E k \in 1..2 :
              /\ sdg_scores[k].user = requests[r].user
              /\ sdg_scores[k].week_start_date # requests[r].score_data.week_start_date
              /\ sdg_scores[k].overall_score # requests[r].score_data.overall_score
        /\ today = MaxDay

\* C15: however the steps of two save_weekly_score requests for one key
\* interleave, there is one stored row for the key, and every column of it
\* is what the request that wrote it last computed.
C15_LastWriteWins ==
    /\ \A k, l \in 1..Len(sdg_scores) : Key(sdg_scores[k]) = Key(sdg_scores[l]) => k = l
    /\ \A k \in 1..Len(sdg_scores) :
          LET r == sdg_scores[k].written_by
          IN  /\ requests[r].pc = "done"
              /\ KeyOf(r) = Key(sdg_scores[k])
              /\ \A f \in DOMAIN Defaults(requests[r].score_data) :
                    sdg_scores[k][f] = requests[r].score_data[f]
    /\ \A r \in Finished : \E k \in 1..Len(sdg_scores) : Key(sdg_scores[k]) = KeyOf(r)

\* Both requests found no row; the one that came second to the INSERT met
\* the unique constraint, read the row and overwrote it with other scores.
C15_Witness ==
    /\ Finished = 1..MaxRequests
    /\ KeyOf(1) = KeyOf(2)
    /\ \E r \in 1..MaxRequests : requests[r].integrity_error
    /\ Len(sdg_scores) = 1
    /\ requests[1].score_data.insights # requests[2].score_data.insights
    /\ requests[sdg_scores[1].written_by].integrity_error

\* C16: the trend calculate_sdg_score reports for week W is 'new' exactly
\* when no score is stored for (owner, W - 7 days); otherwise it is
\* improving, declining or stable as the overall score of the result is
\* above, below or equal to the stored overall score of W - 7 days.
C16_TrendFollowsStoredScore ==
    Calculated(response) =>
        LET stored == response.read[3]
            previous == {k \in 1..Len(stored) :
                            /\ stored[k].user = response.user
                            /\ stored[k].week_start_date =
                                  response.result.week_start_date - 7}
            trend == response.result.improvement.trend
            overall == response.result.overall_score
        IN  /\ trend = "new" <=> previous = {}
            /\ \A k \in previous :
                  /\ trend = "improving" <=> overall > stored[k].overall_score
                  /\ trend = "declining" <=> overall < stored[k].overall_score
                  /\ trend = "stable" <=> overall = stored[k].overall_score

-----------------------------------------------------------------------------
(* The three places that call the chat-completion service *)

\* optimize_weekly_meal_plan(budget_limit, use_llm=True): without a key, or
\* when _optimize_with_llm meets an exception (the call raised, the content
\* is missing or not JSON, or the JSON value has no .get), the rule-based
\* loop is entered with the same arguments; a JSON object of any content
\* is turned into the plan returned, llm_result.get supplying defaults.
OptimizeWithLlm(u, budget_limit, reply) ==
    /\ plan.pc = "idle"
    /\ IF ~reply.key \/ reply.outcome # "json_object"
       THEN OptimizeStart(u, budget_limit)
       ELSE /\ response' =
                  [op |-> "optimize_weekly_meal_plan", user |-> u, reply |-> reply,
                   result |-> [optimization_method |-> "LLM",
                               days |-> IF reply.content = Null THEN <<>>
                                        ELSE <<Val(reply.content)>>,
                               total_cost |-> 0,
                               budget_limit |-> IF budget_limit = Null THEN DefaultBudget
                                                ELSE Val(budget_limit),
                               waste_reduction |->
                                  Cardinality({i \in available_items(u) :
                                                  items[i].status = "expiring_soon"})]]
            /\ UNCHANGED <<today, month, household, items, logs, stores>>

\* The reply of the rule-based chatbot is a function of these arguments.
_generate_rule_based_response(user_message, intent, relevant_resources) ==
    [source |-> "rule_based", user_message |-> user_message, intent |-> intent,
     relevant_resources |-> relevant_resources]

\* response.choices[0].message.content.strip(), whatever the text is.
_generate_ai_response(user_message, intent, relevant_resources, reply) ==
    IF ~reply.key \/ reply.outcome \in {"raises", "no_content"}
    THEN _generate_rule_based_response(user_message, intent, relevant_resources)
    ELSE [source |-> "ai", content |-> reply]

Intents == {"general", "nutrition"}

\* The reply chat() makes with use_ai on; no Resource rows are stored.
GenerateAiResponse(u, intent, reply) ==
    /\ response' = [op |-> "chat", user |-> u, intent |-> intent, reply |-> reply,
                    result |-> _generate_ai_response("message", intent, <<>>, reply)]
    /\ UNCHANGED <<today, month, household, items, logs, stores>>

LlmBudgets == {Null, Some(5000)}

\* A client that asks for scores and chat replies, then for a meal plan;
\* nothing else runs while the plan is made.
NextLlm ==
    \/ \E u \in Users, reply \in LlmReplies :
          /\ plan.pc = "idle"
          /\ CalculateSdgScore(u, Null, TRUE, reply)
    \/ \E u \in Users, intent \in Intents, reply \in LlmReplies :
          /\ plan.pc = "idle"
          /\ GenerateAiResponse(u, intent, reply)
    \/ \E u \in Users, b \in LlmBudgets, reply \in LlmReplies : OptimizeWithLlm(u, b, reply)
    \/ AssignSlot
    \/ OptimizeFinish

SpecLlm == InitSdgStore /\ [][NextLlm]_vars

\* The service failed: no credential, the call raised, or the reply is not
\* what the call site asked for (no content, no JSON, no JSON object, or an
\* object without the entry asked for).
Failed(reply) ==
    \/ ~reply.key
    \/ reply.outcome \in {"raises", "no_content", "text", "json_array"}
    \/ reply.outcome = "json_object" /\ reply.content = Null

\* C17: at each of the three call sites a failed call gives what the
\* rule-based path gives for the same arguments: the rule-based insights
\* with the same scores and previous week, the rule-based chat reply, the
\* plan of the rule-based loop.
C17_FailureFallsBackToRuleBased ==
    /\ (response.op = "calculate_sdg_score" /\ response.use_ai /\ Failed(response.reply)) =>
          response.result.insights =
             _generate_rule_based_insights(
                 response.result.waste_reduction_score \div 100,
                 response.result.nutrition_score \div 100,
                 response.result.sustainability_score \div 100,
                 _get_previous_week_score(response.user,
                                          response.result.week_start_date - 7))
    /\ (response.op = "chat" /\ Failed(response.reply)) =>
          response.result =
             _generate_rule_based_response("message", response.intent, <<>>)
    /\ (/\ response.op = "optimize_weekly_meal_plan"
        /\ "reply" \in DOMAIN response
        /\ Failed(response.reply)) =>
          response.result.optimization_method # "LLM"

-----------------------------------------------------------------------------
(* inventory/management/commands/send_expiration_emails.py *)

(* notifications and outbox are bags: a function from the record to the    *)
(* number of times it was created, or sent.  A notification is             *)
(* [inventory_item, user, days_before_expiry, sent_date, email_sent], its   *)
(* sent_date the day it was created.                                       *)

AddAll(bag, new) ==
    [x \in DOMAIN bag \cup new |->
        (IF x \in DOMAIN bag THEN bag[x] ELSE 0) + (IF x \in new THEN 1 ELSE 0)]

Count(bag, x) == IF x \in DOMAIN bag THEN bag[x] ELSE 0

\* filter(inventory_item=item, days_before_expiry=days_before).exists()
alert_sent_before_never(sent, i, days_before) == FALSE

alert_sent_before(sent, i, days_before) ==
    \E n \in DOMAIN sent : n.inventory_item = i /\ n.days_before_expiry = days_before

\* filter(inventory_item=item, days_before_expiry=days_until,
\*        sent_date=today).exists()
reminder_sent_today(sent, i, days_until, now) ==
    \E n \in DOMAIN sent : /\ n.inventory_item = i
                            /\ n.days_before_expiry = days_until
                            /\ n.sent_date = now

\* filter(inventory_item=item, days_before_expiry=-1,
\*        sent_date__gte=seven_days_ago).exists()
expired_sent_lately(sent, i, now) ==
    \E n \in DOMAIN sent : /\ n.inventory_item = i
                            /\ n.days_before_expiry = -1
                            /\ n.sent_date >= now - 7

ActiveStatuses == {"fresh", "expiring_soon"}

\* The rows of a user among a set of rows.
Of(u, rows) == {i \in rows : items[i].user = u}

\* The users whose e-mail is sent: dry_run skips the send, and a send that
\* raises records nothing.
Recipients_recorded_anyway(lists, dry_run, failing) ==
    {u \in Users : lists[u] # {} /\ ~dry_run}

Recipients(lists, dry_run, failing) ==
    {u \in Users : lists[u] # {} /\ ~dry_run /\ u \notin failing}

Notification(i, days_before_expiry) ==
    [inventory_item |-> i, user |-> items[i].user,
     days_before_expiry |-> days_before_expiry, sent_date |-> today,
     email_sent |-> TRUE]

Mail(u, kind, subject, rows) ==
    [to |-> u, kind |-> kind, subject |-> subject, items |-> rows, sent |-> today]

\* The first part of handle: the alert for the rows that expire in
\* days_before days.  What it sends and records.
expiring_items_fresh_only(days_before) ==
    {i \in DOMAIN items : /\ items[i].expiration_date = Some(today + days_before)
                          /\ items[i].status = "fresh"}

expiring_items(days_before) ==
    {i \in DOMAIN items : /\ items[i].expiration_date = Some(today + days_before)
                          /\ items[i].status \in ActiveStatuses}

alert_part(days_before, dry_run, failing) ==
    LET lists == [u \in Users |->
                    {i \in Of(u, expiring_items(days_before)) :
                        ~alert_sent_before(notifications, i, days_before)}]
        to == Recipients(lists, dry_run, failing)
    IN  [mails |-> {Mail(u, "alert", [text |-> "Expiring Soon",
                                      count |-> Cardinality(lists[u])], lists[u]) :
                       u \in to},
         notes |-> {Notification(i, days_before) : i \in UNION {lists[u] : u \in to}}]

\* _send_urgent_reminders, with the notifications as the first part left
\* them.
_send_urgent_reminders(sent, dry_run, failing) ==
    LET urgent_items == {i \in DOMAIN items :
                            /\ items[i].expiration_date \in {Some(today), Some(today + 1)}
                            /\ items[i].status \in ActiveStatuses}
        days_until(i) == Val(items[i].expiration_date) - today
        lists == [u \in Users |->
                    {i \in Of(u, urgent_items) :
                        ~reminder_sent_today(sent, i, days_until(i), today)}]
        to == Recipients(lists, dry_run, failing)
        today_count(u) == Cardinality({i \in lists[u] : days_until(i) = 0})
    IN  [mails |-> {Mail(u, "urgent",
                         IF today_count(u) > 0
                         THEN [text |-> "Expiring TODAY", count |-> today_count(u)]
                         ELSE [text |-> "Expiring Tomorrow",
                               count |-> Cardinality(lists[u])],
                         lists[u]) : u \in to},
         notes |-> {Notification(i, days_until(i)) : i \in UNION {lists[u] : u \in to}}]

past_expiration == {i \in DOMAIN items : /\ items[i].expiration_date # Null
                                        /\ Val(items[i].expiration_date) < today
                                        /\ items[i].status # "consumed"}

\* _send_expired_notifications but for the status update, with the
\* notifications as the reminders left them.
_send_expired_notifications(sent, dry_run, failing) ==
    LET lists == [u \in Users |->
                    {i \in Of(u, past_expiration) : ~expired_sent_lately(sent, i, today)}]
        to == Recipients(lists, dry_run, failing)
    IN  [mails |-> {Mail(u, "expired",
                         IF Cardinality(lists[u]) = 1
                         THEN [text |-> "Has Expired",
                               item_name |-> items[CHOOSE i \in lists[u] : TRUE].item_name]
                         ELSE [text |-> "Items Have Expired",
                               count |-> Cardinality(lists[u])],
                         lists[u]) : u \in to},
         notes |-> {Notification(i, -1) : i \in UNION {lists[u] : u \in to}}]

\* "if not expiring_items.exists(): return"
returns_early(days_before) == expiring_items(days_before) = {}

\* One run of the command.  failing: the users to whom no mail can be sent.
send_expiration_emails(days_before, dry_run, failing) ==
    LET alert == alert_part(days_before, dry_run, failing)
        sent1 == AddAll(notifications, alert.notes)
        urgent == _send_urgent_reminders(sent1, dry_run, failing)
        sent2 == AddAll(sent1, urgent.notes)
        expired == _send_expired_notifications(sent2, dry_run, failing)
        further == ~returns_early(days_before) /\ ~dry_run
        mails == IF returns_early(days_before) THEN <<>>
                 ELSE IF dry_run THEN <<alert.mails>>
                 ELSE <<alert.mails, urgent.mails, expired.mails>>
        notes == IF returns_early(days_before) THEN <<>>
                 ELSE IF dry_run THEN <<alert.notes>>
                 ELSE <<alert.notes, urgent.notes, expired.notes>>
    IN  /\ items' = [i \in DOMAIN items |->
                        IF further /\ i \in past_expiration /\ items[i].status # "expired"
                        THEN update_status(items[i], today)
                        ELSE items[i]]
        /\ notifications' =
              IF Len(notes) = 0 THEN notifications
              ELSE IF Len(notes) = 1 THEN sent1
              ELSE AddAll(sent2, expired.notes)
        /\ outbox' =
              IF Len(mails) = 0 THEN outbox
              ELSE IF Len(mails) = 1 THEN AddAll(outbox, alert.mails)
              ELSE AddAll(AddAll(AddAll(outbox, alert.mails), urgent.mails),
                          expired.mails)
        /\ response' = [op |-> "send_expiration_emails", days |-> days_before,
                        dry_run |-> dry_run, failing |-> failing, today |-> today,
                        emails_sent |-> Cardinality(UNION {mails[k] : k \in DOMAIN mails})]
        /\ UNCHANGED <<today, month, household, logs, catalog, plan, sdg_scores,
                       requests, waste_predictions>>

DaysOptions == {1, 2}

NextEmail ==
    \/ \E d \in DaysOptions, dry_run \in BOOLEAN, failing \in {{}, {"alice"}} :
          send_expiration_emails(d, dry_run, failing)
    \/ Tick

MaxEmailItems == 2

\* A row about to expire, or past its date since nine days; the stored
\* status is whatever the last update_status left.
EmailRows(now) ==
    UNION {{[user |-> u, item_name |-> "milk", quantity |-> 100, unit |-> "l",
             category |-> "dairy", purchase_date |-> now - 10,
             expiration_date |-> Some(now + d), status |-> st] :
               u \in Users,
               st \in IF d < 0 THEN {"fresh", "expiring_soon", "expired", "consumed"}
                      ELSE {"fresh", "expiring_soon", "consumed"}} :
           d \in {-9, 1, 2}}

\* No run yet, or a run 7 or 8 days ago that sent the expired-item
\* notification for the first row.
InitEmail ==
    /\ today = 0
    /\ month = 7
    /\ household = [u \in Users |-> 1]
    /\ \E n \in 0..MaxEmailItems : items \in [1..n -> EmailRows(0)]
    /\ logs = <<>>
    /\ response = NoResponse
    /\ catalog = <<>>
    /\ plan = NoPlan
    /\ sdg_scores = <<>>
    /\ requests = <<>>
    /\ outbox = <<>>
    /\ waste_predictions = <<>>
    /\ \/ notifications = <<>>
       \/ \E age \in {7, 8} :
             /\ Len(items) > 0
             /\ is_expired(items[1], 0 - age)
             /\ items[1].status \in {"expired", "consumed"}
             /\ notifications =
                   AddAll(<<>>, {[inventory_item |-> 1, user |-> items[1].user,
                                  days_before_expiry |-> -1, sent_date |-> 0 - age,
                                  email_sent |-> TRUE]})

SpecEmail == InitEmail /\ [][NextEmail]_vars

-----------------------------------------------------------------------------
(* Properties of the e-mail command *)

\* The state a run of the command without --dry-run has just left.
AfterRun ==
    /\ response.op = "send_expiration_emails"
    /\ ~response.dry_run
    /\ response.today = today

\* C18: after a run without --dry-run every row that is not consumed and
\* whose expiration date is before today has the stored status 'expired'.
C18_PastExpirationIsExpired ==
    AfterRun => \A i \in past_expiration : items[i].status = "expired"

\* A step of the command on a day, the mail working, without --dry-run.
RunStep ==
    /\ today' = today
    /\ response'.op = "send_expiration_emails"
    /\ ~response'.dry_run
    /\ response'.failing = {}

\* C19: a run without --dry-run sends, for every row not consumed and past
\* its expiration date that has no expired-item notification of the last 7
\* days, a mail to the owner whose subject says it has expired, and
\* records the notification with days_before_expiry -1 and email_sent.
C19_ExpiredMailSentAndRecorded ==
    [][RunStep =>
          \A i \in past_expiration :
              ~expired_sent_lately(notifications, i, today) =>
                 /\ \E m \in DOMAIN outbox' :
                       /\ Count(outbox', m) > Count(outbox, m)
                       /\ m.to = items[i].user
                       /\ m.subject.text \in {"Has Expired", "Items Have Expired"}
                       /\ i \in m.items
                 /\ Count(notifications', Notification(i, -1))
                       > Count(notifications, Notification(i, -1))]_vars

\* A notification that makes a further mail about row i a duplicate: for
\* an expired row one of the last 7 days with days_before_expiry -1, for an
\* advance alert one with the same days_before_expiry.
AlreadyNotified(i, days_before_expiry) ==
    IF days_before_expiry = -1
    THEN expired_sent_lately(notifications, i, today)
    ELSE alert_sent_before(notifications, i, days_before_expiry)

\* What a mail is about, as days before the expiry of a row it lists.
DaysBeforeExpiry(m, i) ==
    IF m.kind = "expired" THEN -1 ELSE Val(items[i].expiration_date) - m.sent

\* C20: a run sends no mail about a row, and records no notification for
\* it, of a kind for which a notification exists already; and a run that
\* follows a run of the same day with the same options sends and records
\* nothing.
C20_NoDuplicateMail ==
    [][(today' = today /\ response'.op = "send_expiration_emails") =>
          /\ \A m \in DOMAIN outbox' :
                Count(outbox', m) > Count(outbox, m) =>
                   \A i \in m.items : ~AlreadyNotified(i, DaysBeforeExpiry(m, i))
          /\ \A n \in DOMAIN notifications' :
                Count(notifications', n) > Count(notifications, n) =>
                   ~AlreadyNotified(n.inventory_item, n.days_before_expiry)
          /\ (AfterRun /\ response.failing = {} /\ response'.days = response.days) =>
                (outbox' = outbox /\ notifications' = notifications)]_vars

\* The second run of a day reached every part and sent nothing: the rows
\* it would write about, one expiring and one expired, were written about
\* by the first run.
C20_Witness ==
    /\ AfterRun
    /\ response.failing = {}
    /\ response.emails_sent = 0
    /\ \E i \in expiring_items(response.days) :
          /\ alert_sent_before(notifications, i, response.days)
          /\ \E m \in DOMAIN outbox : m.kind = "alert" /\ i \in m.items /\ outbox[m] = 1
    /\ \E i \in past_expiration :
          /\ Count(notifications, Notification(i, -1)) = 1
          /\ \E m \in DOMAIN outbox :
                m.kind = "expired" /\ m.sent = today /\ i \in m.items /\ outbox[m] = 1

CommandStep == today' = today /\ response'.op = "send_expiration_emails"

\* Every notification a step records is for a row listed in a mail the
\* step sent to the row's owner, which needs a send that did not fail and a
\* run without --dry-run.
RecordedOnlyIfSent ==
    \A n \in DOMAIN notifications' :
        Count(notifications', n) > Count(notifications, n) =>
           /\ ~response'.dry_run
           /\ n.user \notin response'.failing
           /\ \E m \in DOMAIN outbox' :
                 /\ Count(outbox', m) > Count(outbox, m)
                 /\ m.to = n.user
                 /\ n.inventory_item \in m.items

\* The rows of the users whose batch was not sent.
Unsent == {i \in DOMAIN items : response'.dry_run \/ items[i].user \in response'.failing}

\* The rows a run of the day would write about are the same after the step.
SelectedAgain(i) ==
    /\ \A d \in DaysOptions :
          (i \in expiring_items(d) /\ ~alert_sent_before(notifications, i, d)) =>
             (i \in expiring_items(d) /\ ~alert_sent_before(notifications, i, d))'
    /\ (i \in past_expiration /\ ~expired_sent_lately(notifications, i, today)) =>
          (i \in past_expiration /\ ~expired_sent_lately(notifications, i, today))'

-----------------------------------------------------------------------------
(* ai_analytics/views.py: the two pages that store WastePrediction rows,    *)
(* and ai_analytics/ai_engine.py: predict_waste_risk                        *)

MaxPredictions == 3

\* category -> mean quantity of the owner's logs of the last 30 days, as the
\* fraction sum / count; count 0 when the category has no log.
category_avg_consumption(u, category, now) ==
    LET recent == {k \in 1..Len(logs) :
                      /\ logs[k].user = u
                      /\ logs[k].date_consumed >= now - 30
                      /\ logs[k].category = category}
    IN  [sum |-> SumQuantity(logs, recent), count |-> Cardinality(recent)]

\* base_risk of one at-risk row, in hundredths of a percent.
waste_probability(item, u, now) ==
    LET days_until_expiry == Val(item.expiration_date) - now
        avg == category_avg_consumption(u, item.category, now)
        proximity == IF days_until_expiry <= 1 THEN 90
                     ELSE IF days_until_expiry <= 3 THEN 70 ELSE 50
        slow == /\ avg.sum > 0
                /\ item.quantity * avg.count > days_until_expiry * avg.sum
        base_risk == proximity + (IF slow THEN 20 ELSE 0)
                         - (IF household[u] > 1 THEN 10 ELSE 0)
    IN  100 * Max(0, Min(100, base_risk))

at_risk_items(u, days_ahead, now) ==
    {i \in OwnedBy(u) :
        /\ items[i].expiration_date # Null
        /\ Val(items[i].expiration_date) <= now + days_ahead
        /\ Val(items[i].expiration_date) >= now
        /\ items[i].status # "consumed"}

PredictionRow(u, id, name, date, category, probability) ==
    [user |-> u, inventory_item |-> id, item_name |-> name,
     predicted_waste_date |-> date, category |-> category,
     predicted_waste_probability |-> probability]

\* AIConsumptionAnalyzer.predict_waste_risk, as the rows the page stores.
predict_waste_risk(u, days_ahead, now) ==
    LET rows == Ordered(at_risk_items(u, days_ahead, now))
    IN  [k \in 1..Len(rows) |->
            PredictionRow(u, rows[k], items[rows[k]].item_name,
                          items[rows[k]].expiration_date, items[rows[k]].category,
                          waste_probability(items[rows[k]], u, now))]

\* The lookup of update_or_create as the two views call it: user,
\* inventory_item, item_name and predicted_waste_date.
lookup_by_item_and_date(stored, row) ==
    /\ stored.user = row.user
    /\ stored.inventory_item = row.inventory_item
    /\ stored.predicted_waste_date = row.predicted_waste_date

lookup(stored, row) ==
    /\ stored.user = row.user
    /\ stored.inventory_item = row.inventory_item
    /\ stored.item_name = row.item_name
    /\ stored.predicted_waste_date = row.predicted_waste_date

\* QuerySet.update_or_create: the row the lookup finds gets the defaults,
\* and a row is created when it finds none.  Requests handled one after the
\* other never leave two rows for one lookup.
update_or_create(table, row) ==
    LET found == {k \in 1..Len(table) : lookup(table[k], row)}
    IN  IF found = {} THEN Append(table, row)
        ELSE [k \in 1..Len(table) |-> IF k \in found THEN row ELSE table[k]]

RECURSIVE save_predictions(_, _)
save_predictions(table, rows) ==
    IF rows = <<>> THEN table
    ELSE save_predictions(update_or_create(table, Head(rows)), Tail(rows))

\* The expiration_risks view: the critical and high predictions are stored.
expiration_risks(u, days_ahead) ==
    /\ LET predictions == predict_expiration_risks(u, days_ahead, today, month)
           high == SelectSeq(predictions, IsHighRisk)
           rows == [k \in 1..Len(high) |->
                      PredictionRow(u, high[k].inventory_item, high[k].item_name,
                                    high[k].expiration_date, high[k].category,
                                    high[k].risk_score)]
       IN  \E saved \in {save_predictions(waste_predictions, rows)} :
              /\ Len(saved) <= MaxPredictions
              /\ waste_predictions' = saved
    /\ response' = [op |-> "expiration_risks", user |-> u, days_ahead |-> days_ahead]
    /\ UNCHANGED <<today, month, household, items, logs, catalog, plan, sdg_scores,
                   requests, notifications, outbox>>

\* The waste_analysis view: every prediction of the next 7 days is stored.
waste_analysis(u) ==
    /\ \E saved \in {save_predictions(waste_predictions,
                                      predict_waste_risk(u, 7, today))} :
          /\ Len(saved) <= MaxPredictions
          /\ waste_predictions' = saved
    /\ response' = [op |-> "waste_analysis", user |-> u]
    /\ UNCHANGED <<today, month, household, items, logs, catalog, plan, sdg_scores,
                   requests, notifications, outbox>>

\* What the owner posts in the edit form: a name and a category.
EditForms ==
    { [item_name |-> n, quantity |-> 100, unit |-> "l", category |-> c] :
        n \in {"milk", "rice"}, c \in {"dairy"} }

NextPred ==
    \/ \E u \in Users : expiration_risks(u, 7)
    \/ \E u \in Users : waste_analysis(u)
    \/ \E u \in Users, id \in DOMAIN items, f \in EditForms :
          inventory_edit(u, id, f, items[id].expiration_date)
    \/ \E u \in Users, id \in DOMAIN items : inventory_delete(u, id)

PredRows(now) ==
    UNION { { [user |-> u, item_name |-> "milk", quantity |-> 100, unit |-> "l",
               category |-> "dairy", purchase_date |-> now - 3,
               expiration_date |-> Some(now + d), status |-> st] :
              st \in StoredStatuses(Some(now + d), now) } :
            u \in {"alice"}, d \in {1, 6} }

InitPred ==
    /\ today = 0
    /\ month = 7
    /\ household = [u \in Users |-> 1]
    /\ \E n \in 1..MaxItems : items \in [1..n -> PredRows(0)]
    /\ logs = <<>>
    /\ response = NoResponse
    /\ NoStores

SpecPred == InitPred /\ [][NextPred]_vars

-----------------------------------------------------------------------------
(* The scoring services of one owner while another owner uses the site *)

\* What the services answer the owner in the current state: the risk
\* predictions, the weekly waste estimate, the SDG score of the current week,
\* and what a run of the meal optimizer starts from -- its two lists, the
\* rows in them and the catalog.
ScoresOf(u) ==
    [predict_expiration_risks |-> predict_expiration_risks(u, 7, today, month),
     estimate_weekly_waste |-> estimate_weekly_waste(u, FALSE, NoMl, today),
     calculate_sdg_score |-> sdg_score_data(u, Null, FALSE, NoKey, today),
     optimize_weekly_meal_plan |->
        [expiring_items |-> {i \in available_items(u) : items[i].status = "expiring_soon"},
         fresh_items |-> {i \in available_items(u) : items[i].status = "fresh"},
         rows |-> [i \in available_items(u) |-> items[i]],
         catalog |-> catalog]]

\* The rows, logs and stored scores of a user, and what belongs to no user.
DataOf(u) ==
    [items |-> [i \in {j \in DOMAIN items : items[j].user = u} |-> items[i]],
     logs |-> LET Mine(row) == row.user = u IN SelectSeq(logs, Mine),
     sdg_scores |-> LET Mine(row) == row.user = u IN SelectSeq(sdg_scores, Mine),
     household |-> household[u],
     shared |-> <<today, month, catalog>>]

\* A user asks the four services; the request keeps what it read of the
\* user's own data and what it was answered.
AskServices(u) ==
    /\ \E answered \in {ScoresOf(u)} :
          requests' = <<[user |-> u, data |-> DataOf(u), answered |-> answered]>>
    /\ response' = [op |-> "ai_analytics_dashboard", user |-> u]
    /\ UNCHANGED <<today, month, household, items, logs, catalog, plan, sdg_scores,
                   notifications, outbox, waste_predictions>>

ScopeCatalog ==
    <<[name |-> "Rice", category |-> "grain", sample_cost_per_unit |-> Some(0),
       unit |-> "piece"]>>

ScopeForms ==
    { [item_name |-> "rice", quantity |-> 100, unit |-> "piece", category |-> "vegetable"] }

\* bob uses the inventory pages and saves his score; alice asks the
\* services before, between and after his requests.
NextScope ==
    \/ \E f \in ScopeForms, exp \in {Null, Some(today - 1), Some(today + 1)} :
          \/ inventory_create("bob", f, exp)
          \/ \E id \in DOMAIN items : inventory_edit("bob", id, f, exp)
    \/ \E id \in DOMAIN items : inventory_delete("bob", id)
    \/ \E id \in DOMAIN items : inventory_mark_consumed("bob", id)
    \/ save_weekly_score("bob", Null)
    \/ AskServices("alice")

\* alice holds the first row; bob holds none yet.
InitScope ==
    /\ today = 0
    /\ month = 7
    /\ household = [u \in Users |-> 1]
    /\ \E mine \in StoreRows("alice", 0) : items = <<mine>>
    /\ logs = <<>>
    /\ response = NoResponse
    /\ catalog = ScopeCatalog
    /\ plan = NoPlan
    /\ sdg_scores = <<>>
    /\ requests = <<>>
    /\ notifications = <<>>
    /\ outbox = <<>>
    /\ waste_predictions = <<>>

SpecScope == InitScope /\ [][NextScope]_vars

\* C22: what the four services answered a user is what they answer the user
\* now, whatever the requests of the other user did in between to his
\* rows, logs and stored scores, as long as the user's own data is as it was.
C22_ScoresAreOwnerScoped ==
    \A r \in 1..Len(requests) :
        requests[r].data = DataOf(requests[r].user) =>
            requests[r].answered = ScoresOf(requests[r].user)

\* alice was answered while bob held nothing; since then bob has stored an
\* expired row, marked a row consumed, which logged it, and saved a score.
C22_Witness ==
    /\ Len(requests) = 1
    /\ requests[1].user = "alice"
    /\ requests[1].data = DataOf("alice")
    /\ requests[1].answered.estimate_weekly_waste.total_waste_grams # FloatZero
    /\ response.op # "ai_analytics_dashboard"
    /\ \E i \in DOMAIN items : items[i].user = "bob" /\ items[i].status = "expired"
    /\ \E k \in 1..Len(logs) : logs[k].user = "bob"
    /\ \E k \in 1..Len(sdg_scores) : sdg_scores[k].user = "bob"

=============================================================================
